---------------------------- MODULE Spec2Model ----------------------------
(***************************************************************************)
(* Document validator: validation rule engine and extraction dispatcher.   *)
(*                                                                         *)
(* Lengths are fixed-point: an integer is a number of hundredths of a      *)
(* centimetre (17.0 cm = 1700, the 0.6 cm tolerance = 60).                 *)
(* An optional value (a dict key that may be absent, an Optional field, a  *)
(* None argument) is <<>> when absent and <<v>> when present.              *)
(***************************************************************************)
EXTENDS Integers, Sequences, FiniteSets, TLC

VARIABLES
    v_engine,       \* which validate_document runs: "core", "document", "server"
    v_doc,          \* its doc_props argument
    v_kwargs,       \* the keyword arguments the DocumentSpec was built from
    v_spec,         \* its spec argument, DocumentSpec(**v_kwargs)
    v_services,     \* its services argument (<<>> is None)
    v_pc,           \* 0 = entry, i = about to evaluate rule i, n+1 = about to return
    v_validations,  \* the local dict validations: rule name -> bool
    v_out           \* what the call has produced: running, a report, or a raise

vVars == <<v_engine, v_doc, v_kwargs, v_spec, v_services, v_pc, v_validations, v_out>>

VARIABLES
    d_impl,         \* which dispatcher runs: "base", "document", "server", "async_base"
    d_file,         \* its file_content argument
    d_format,       \* its file_format argument, a sequence of characters
    d_pc,           \* the statement about to run
    d_props,        \* the local doc_props / odt_props (<<>> before it is set)
    d_pdf,          \* the local pdf_bytes (<<>> before it is set)
    d_calls,        \* the calls made so far, each with what it returned or raised
    d_out           \* what the call has produced: running, a return, or a raise

dVars == <<d_impl, d_file, d_format, d_pc, d_props, d_pdf, d_calls, d_out>>

VARIABLES
    c_mode,         \* "sync": convert_to_pdf_via_lo, "async": convert_to_pdf_via_lo_async
    c_src,          \* its src_bytes argument
    c_ext,          \* its ext argument
    c_env,          \* what the soffice executable does in this run
    c_clock,        \* seconds since the call
    c_w,            \* where convert_to_pdf_via_lo stands (and the thread that runs it)
    c_proc,         \* the soffice subprocess: "none", "running", "exited", "killed"
    c_proc_start,   \* the clock when it was spawned
    c_tmp,          \* the temporary directory (<<>> when there is none)
    c_res,          \* what convert_to_pdf_via_lo returned or raised
    c_out           \* what the caller of the conversion has observed

cVars == <<c_mode, c_src, c_ext, c_env, c_clock, c_w, c_proc, c_proc_start,
           c_tmp, c_res, c_out>>

VARIABLES
    o_order,        \* the pieces the order text is made of
    o_text,         \* parse_order's text argument
    o_pc,           \* the statement about to run
    o_norm,         \* the local text_norm
    o_services,     \* the local services
    o_m,            \* the local m (<<>> is None)
    o_out           \* what the call has produced

oVars == <<o_order, o_text, o_pc, o_norm, o_services, o_m, o_out>>

VARIABLES
    e_endpoint,     \* "validate" or "validate_order"
    e_ext,          \* the last dot-component of the uploaded file's name
    e_file,         \* the uploaded bytes
    e_too_large,    \* whether the upload exceeds MAX_FILE_SIZE
    e_store,        \* what db.document_specs.find_one does
    e_order,        \* the order_text form field, by its pieces
    e_pc,           \* the statement about to run
    e_kwargs,       \* the keyword arguments of the endpoint's DocumentSpec
    e_services,     \* the local services (<<>> when there is none)
    e_resp          \* the HTTP response (status 0 before there is one)

eVars == <<e_endpoint, e_ext, e_file, e_too_large, e_store, e_order, e_pc,
           e_kwargs, e_services, e_resp>>

VARIABLES
    s_impl,         \* "pdf": extract_pdf_properties, "docx": extract_docx_properties
    s_pages,        \* the sizes of the document's pages (sections), in order
    s_pc,           \* the statement about to run
    s_boxes,        \* the local page_boxes (section_data)
    s_ref,          \* the locals ref_w, ref_h (<<>> before they are set)
    s_i,            \* the position of the second loop in page_boxes
    s_inconsistent, \* the local inconsistent_pages (inconsistent_sections)
    s_out           \* what the scan has produced

sVars == <<s_impl, s_pages, s_pc, s_boxes, s_ref, s_i, s_inconsistent, s_out>>

VARIABLES
    r_run,          \* which of the two process_document calls on the buffer runs
    r_first,        \* what the first call produced (running until it is over)
    r_now,          \* the wall clock, in units of the PDF date stamp
    r_lo            \* what the installed LibreOffice renders the buffer to

rVars == <<r_run, r_first, r_now, r_lo>>

VARIABLES
    t_file,         \* per request: the uploaded buffer
    t_ext,          \* per request: the extension given
    t_how,          \* per request: what its soffice child does
    t_pc,           \* per request: the statement about to run
    t_props,        \* per request: the local doc_props (<<>> before it is set)
    t_tmp,          \* per request: the local tmp, its temporary directory
    t_seen,         \* per request: what its soffice child read at src_path
    t_res,          \* per request: what convert_to_pdf_via_lo gave back
    t_out,          \* per request: what process_document_async produced
    t_report,       \* per request: what validate_document produced
    t_fs            \* the file system under the temporary root, shared

tVars == <<t_file, t_ext, t_how, t_pc, t_props, t_tmp, t_seen, t_res, t_out,
           t_report, t_fs>>

VARIABLES
    p_pdf,          \* the PDF read: its pages, each with its text and its words
    p_outline,      \* the number of entries of the PDF's outline (bookmarks)
    p_pc,           \* the statement about to run
    p_idx,          \* the local idx of the loop over pdf.pages
    p_w,            \* the place of the inner loop in the page's words
    p_pos,          \* the local pos
    p_headings,     \* the local headings
    p_positions,    \* the local page_num_positions
    p_toc,          \* toc_structure of the detailed analysis (<<>> before it is set)
    p_out           \* what extract_pdf_properties produced

pVars == <<p_pdf, p_outline, p_pc, p_idx, p_w, p_pos, p_headings, p_positions,
           p_toc, p_out>>

VARIABLES
    a_impl,         \* which analysis runs: of a PDF or of a DOCX
    a_units,        \* the pages of the PDF, the paragraphs of the DOCX
    a_rels,         \* DOCX: the number of media relationships of the part
    a_pc,           \* the statement about to run
    a_i,            \* the place of the loop over pages or paragraphs
    a_s,            \* the place of the inner loop over spans or runs
    a_page_is_color,    \* PDF: the local page_is_color
    a_color_pages,  \* PDF: the local color_pages
    a_has_color_text,   \* the local has_color_text
    a_colored,      \* DOCX: the local colored_elements_count
    a_image_count,  \* the local image_count / img_cnt
    a_fonts,        \* the local fonts
    a_out           \* what the analysis produced

aVars == <<a_impl, a_units, a_rels, a_pc, a_i, a_s, a_page_is_color,
           a_color_pages, a_has_color_text, a_colored, a_image_count, a_fonts,
           a_out>>

VARIABLES
    b_source,       \* where the specification comes from: "create" or "order"
    b_body,         \* the JSON body of POST /specs
    b_order,        \* the order_text of POST /validate-order
    b_insert_fails, \* whether db.document_specs.insert_one raises
    b_pc,           \* the statement about to run
    b_db,           \* the documents of db.document_specs
    b_spec,         \* the DocumentSpec handed to validate_document (<<>>: none)
    b_resp          \* the HTTP response of the request that makes the spec

bVars == <<b_source, b_body, b_order, b_insert_fails, b_pc, b_db, b_spec, b_resp>>

VARIABLES
    l_op,           \* per thread: the call it makes, save_result or get_entry
    l_pc,           \* per thread: the statement about to run
    l_lock,         \* the thread that holds _lock (0: nobody)
    l_storage,      \* _storage: per id the entry, <<>> without one
    l_ret,          \* per thread: what get_entry returned (<<>>: None)
    l_saved         \* the save_result calls that have completed, in order

lVars == <<l_op, l_pc, l_lock, l_storage, l_ret, l_saved>>

vars == <<vVars, dVars, cVars, oVars, eVars, sVars, rVars, tVars, pVars, aVars, bVars, lVars>>

\* What a validate_document call leaves alone, what a process_document call
\* leaves alone, what a conversion leaves alone, and what a parse_order call
\* leaves alone.
OutsideV == <<dVars, cVars, oVars, eVars, sVars, rVars, tVars, pVars, aVars, bVars, lVars>>

OutsideD == <<vVars, cVars, oVars, eVars, sVars, rVars, tVars, pVars, aVars, bVars, lVars>>

OutsideC == <<vVars, dVars, oVars, eVars, sVars, rVars, tVars, pVars, aVars, bVars, lVars>>

OutsideO == <<vVars, dVars, cVars, eVars, sVars, rVars, tVars, pVars, aVars, bVars, lVars>>

\* What an endpoint leaves alone besides the process_document call it makes.
OutsideE == <<vVars, cVars, oVars, sVars, rVars, tVars, pVars, aVars, bVars, lVars>>

\* What the scan of the page sizes leaves alone.
OutsideS == <<vVars, dVars, cVars, oVars, eVars, rVars, tVars, pVars, aVars, bVars, lVars>>

\* What starting process_document again on the same buffer leaves alone.
OutsideR == <<vVars, cVars, oVars, eVars, sVars, tVars, pVars, aVars, bVars, lVars>>

\* What two concurrent requests leave alone.
OutsideT == <<vVars, dVars, cVars, oVars, eVars, sVars, rVars, pVars, aVars, bVars, lVars>>

\* What an extraction followed by a validation leaves alone.
OutsideVD == <<cVars, oVars, eVars, sVars, rVars, tVars, pVars, aVars, bVars, lVars>>

\* What the scan of a PDF's pages leaves alone.
OutsideP == <<vVars, dVars, cVars, oVars, eVars, sVars, rVars, tVars, aVars, bVars, lVars>>

\* What a detailed analysis leaves alone.
OutsideA == <<vVars, dVars, cVars, oVars, eVars, sVars, rVars, tVars, pVars, bVars, lVars>>

\* What the making of a specification leaves alone.
OutsideB == <<vVars, dVars, cVars, oVars, eVars, sVars, rVars, tVars, pVars, aVars, lVars>>

\* What the calls of the result store leave alone.
OutsideL == <<vVars, dVars, cVars, oVars, eVars, sVars, rVars, tVars, pVars, aVars, bVars>>



-----------------------------------------------------------------------------
(* Generic helpers *)

Abs(x) == IF x < 0 THEN -x ELSE x

Absent == <<>>

Has(o) == o # <<>>

Val(o) == o[1]

Range(s) == {s[i] : i \in 1..Len(s)}

EmptyMap == [k \in {} |-> FALSE]

-----------------------------------------------------------------------------
(* models.py: DocumentSpec *)

\* The fields DocumentSpec declares (id, name, created_at, created_by are not
\* read by any rule and are left out).
SpecFields ==
    {"page_width_cm", "page_height_cm", "top_margin_cm", "bottom_margin_cm",
     "left_margin_cm", "right_margin_cm", "requires_toc", "no_color_pages",
     "no_images", "requires_header", "requires_footnotes"}

FlagFields ==
    {"requires_toc", "no_color_pages", "no_images", "requires_header",
     "requires_footnotes"}

\* DocumentSpec(**kwargs): a pydantic model keeps the declared fields, gives
\* the flags their default False, and ignores every undeclared keyword.
DocumentSpec(kwargs) ==
    [f \in SpecFields |->
        IF f \in DOMAIN kwargs THEN kwargs[f] ELSE FALSE]

\* hasattr(spec, name)
HasAttr(spec, name) == name \in DOMAIN spec

-----------------------------------------------------------------------------
(* Rule outcomes: a value, or the exception the rule raised *)

Ok(b) == [exc |-> "none", val |-> b]

Raise(e) == [exc |-> e, val |-> FALSE]

\* services = services or {}
ServicesOrEmpty(s) == IF Has(s) THEN Val(s) ELSE EmptyMap

\* truthiness of services.get(key)
ServicesGet(m, key) == IF key \in DOMAIN m THEN m[key] ELSE FALSE

_TOL_PAGE_CM == 60

_TOL_MARGIN_CM == 50

MarginSides == {"top_cm", "bottom_cm", "left_cm", "right_cm"}

SpecMargin(spec, side) ==
    CASE side = "top_cm"    -> spec.top_margin_cm
      [] side = "bottom_cm" -> spec.bottom_margin_cm
      [] side = "left_cm"   -> spec.left_margin_cm
      [] side = "right_cm"  -> spec.right_margin_cm

\* Mutant of page_size: the layout_service short-circuit is missing.
page_size_IgnoresServices(doc, spec, services) ==
    IF ~Has(doc.page_size) THEN Raise("KeyError")
    ELSE LET sz == Val(doc.page_size) IN
         Ok(/\ Abs(sz.width_cm - spec.page_width_cm) < _TOL_PAGE_CM
            /\ Abs(sz.height_cm - spec.page_height_cm) < _TOL_PAGE_CM)

\* rules.page_size
page_size(doc, spec, services) ==
    IF ServicesGet(services, "layout_service") THEN Ok(TRUE)
    ELSE IF ~Has(doc.page_size) THEN Raise("KeyError")
    ELSE LET sz == Val(doc.page_size) IN
         Ok(/\ Abs(sz.width_cm - spec.page_width_cm) < _TOL_PAGE_CM
            /\ Abs(sz.height_cm - spec.page_height_cm) < _TOL_PAGE_CM)

\* Mutant of format_consistency: layout_service suppresses the rule as it
\* does page_size and margins.
format_consistency_Suppressed(doc, spec, services) ==
    IF ServicesGet(services, "layout_service") THEN Ok(TRUE)
    ELSE Ok(~(IF Has(doc.has_size_inconsistencies)
              THEN Val(doc.has_size_inconsistencies) ELSE FALSE))

\* rules.format_consistency
format_consistency(doc, spec, services) ==
    Ok(~(IF Has(doc.has_size_inconsistencies)
         THEN Val(doc.has_size_inconsistencies) ELSE FALSE))

\* rules.margins
margins(doc, spec, services) ==
    IF ServicesGet(services, "layout_service") THEN Ok(TRUE)
    ELSE IF ~Has(doc.margins) THEN Raise("KeyError")
    ELSE LET m == Val(doc.margins) IN
         Ok(\A side \in MarginSides :
                Abs(m[side] - SpecMargin(spec, side)) < _TOL_MARGIN_CM)

\* rules.has_toc
has_toc(doc, spec, services) ==
    IF ~spec.requires_toc THEN Ok(TRUE)
    ELSE IF ~Has(doc.has_toc) THEN Raise("KeyError")
    ELSE Ok(Val(doc.has_toc))

\* rules.no_color_pages
no_color_pages(doc, spec, services) ==
    IF ~spec.no_color_pages THEN Ok(TRUE)
    ELSE Ok(~(/\ Has(doc.detailed_analysis)
              /\ LET da == Val(doc.detailed_analysis) IN
                 da.has_color_pages \/ da.has_color_text))

\* rules.no_images
no_images(doc, spec, services) ==
    IF ~spec.no_images THEN Ok(TRUE)
    ELSE Ok(~(/\ Has(doc.detailed_analysis)
              /\ LET da == Val(doc.detailed_analysis) IN
                 Has(da.images) /\ Val(da.images).count # 0))

\* rules.has_header
has_header(doc, spec, services) ==
    Ok(~spec.requires_header \/ (Has(doc.headers) /\ Val(doc.headers) # <<>>))

\* rules.has_footnotes
has_footnotes(doc, spec, services) ==
    Ok(~spec.requires_footnotes
       \/ (Has(doc.footnotes) /\ Val(doc.footnotes) # <<>>))

\* doc.get("page_count", 0)
PageCountOrZero(doc) == IF Has(doc.page_count) THEN Val(doc.page_count) ELSE 0

\* rules.min_page_count: reads spec.min_page_count, an attribute DocumentSpec
\* does not declare.
min_page_count(doc, spec, services) ==
    IF ~HasAttr(spec, "min_page_count") THEN Raise("AttributeError")
    ELSE Ok(PageCountOrZero(doc) >= spec["min_page_count"])

GoodPositions == {"center", "left", "right"}

\* doc.get("page_num_positions", [])
\* Mutant of PositionsOrEmpty: a missing key counts as one centred number.
PositionsOrEmpty_DefaultCenter(doc) ==
    IF Has(doc.page_num_positions) THEN Val(doc.page_num_positions)
    ELSE <<"center">>

\* doc.get("page_num_positions", [])
PositionsOrEmpty(doc) ==
    IF Has(doc.page_num_positions) THEN Val(doc.page_num_positions) ELSE <<>>

\* Mutant of page_numbers_position: no test for the empty list, so all() of
\* nothing is true.
page_numbers_position_Vacuous(doc, spec, services) ==
    LET pos == PositionsOrEmpty(doc) IN
    Ok(\A i \in 1..Len(pos) : pos[i] \in GoodPositions)

\* rules.page_numbers_position
page_numbers_position(doc, spec, services) ==
    LET pos == PositionsOrEmpty(doc) IN
    IF pos = <<>> THEN Ok(FALSE)
    ELSE Ok(\A i \in 1..Len(pos) : pos[i] \in GoodPositions)

-----------------------------------------------------------------------------
(* services/validation/core.py: the rule table *)

_RULES ==
    <<"page_size", "format_consistency", "margins", "has_toc",
      "no_color_pages", "no_images", "has_header", "has_footnotes",
      "min_page_count", "page_numbers_position">>

\* _RULES[name](doc_props, spec, services)
CoreRule(name, doc, spec, services) ==
    CASE name = "page_size"             -> page_size(doc, spec, services)
      [] name = "format_consistency"    -> format_consistency(doc, spec, services)
      [] name = "margins"               -> margins(doc, spec, services)
      [] name = "has_toc"               -> has_toc(doc, spec, services)
      [] name = "no_color_pages"        -> no_color_pages(doc, spec, services)
      [] name = "no_images"             -> no_images(doc, spec, services)
      [] name = "has_header"            -> has_header(doc, spec, services)
      [] name = "has_footnotes"         -> has_footnotes(doc, spec, services)
      [] name = "min_page_count"        -> min_page_count(doc, spec, services)
      [] name = "page_numbers_position" -> page_numbers_position(doc, spec, services)

\* `not doc_props or "page_size" not in doc_props`: an empty dict has no
\* page_size key, so the test reduces to the key being absent.
CoreRejects(doc) == ~Has(doc.page_size)

-----------------------------------------------------------------------------
(* services/document.py: validate_document, the blocks in file order *)

DocumentChecks == _RULES

DocumentCheck(name, doc, spec, services) ==
    CASE name = "page_size" ->
            IF ServicesGet(services, "layout_service") THEN Ok(TRUE)
            ELSE IF ~Has(doc.page_size) THEN Raise("KeyError")
            ELSE Ok(/\ Abs(Val(doc.page_size).width_cm - spec.page_width_cm) < 60
                    /\ Abs(Val(doc.page_size).height_cm - spec.page_height_cm) < 60)
      [] name = "format_consistency" ->
            Ok(~(IF Has(doc.has_size_inconsistencies)
                 THEN Val(doc.has_size_inconsistencies) ELSE FALSE))
      [] name = "margins" ->
            IF ServicesGet(services, "layout_service") THEN Ok(TRUE)
            ELSE IF ~Has(doc.margins) THEN Raise("KeyError")
            ELSE Ok(\A side \in MarginSides :
                      Abs(Val(doc.margins)[side] - SpecMargin(spec, side)) < 50)
      [] name = "has_toc" ->
            IF ~spec.requires_toc THEN Ok(TRUE)
            ELSE IF ~Has(doc.has_toc) THEN Raise("KeyError")
            ELSE Ok(Val(doc.has_toc))
      [] name = "no_color_pages" ->
            Ok(~spec.no_color_pages
               \/ ~(/\ Has(doc.detailed_analysis)
                    /\ (Val(doc.detailed_analysis).has_color_pages
                        \/ Val(doc.detailed_analysis).has_color_text)))
      [] name = "no_images" ->
            Ok(~spec.no_images
               \/ ~(/\ Has(doc.detailed_analysis)
                    /\ Has(Val(doc.detailed_analysis).images)
                    /\ Val(Val(doc.detailed_analysis).images).count # 0))
      [] name = "has_header" ->
            Ok(~spec.requires_header
               \/ (Has(doc.headers) /\ Val(doc.headers) # <<>>))
      [] name = "has_footnotes" ->
            Ok(~spec.requires_footnotes
               \/ (Has(doc.footnotes) /\ Val(doc.footnotes) # <<>>))
      [] name = "min_page_count" ->
            IF ~HasAttr(spec, "min_page_count") THEN Raise("AttributeError")
            ELSE Ok(PageCountOrZero(doc) >= spec["min_page_count"])
      [] name = "page_numbers_position" ->
            LET page_nums == PositionsOrEmpty(doc) IN
            IF page_nums # <<>>
            THEN Ok(\A i \in 1..Len(page_nums) : page_nums[i] \in GoodPositions)
            ELSE Ok(FALSE)

-----------------------------------------------------------------------------
(* server.py: validate_document, the blocks in file order *)

ServerChecks ==
    <<"page_size", "format_consistency", "margins", "has_toc",
      "no_color_pages", "no_images", "has_header", "has_footnotes",
      "min_page_count">>

ServerCheck(name, doc, spec, services) ==
    CASE name = "page_size" ->
            IF ServicesGet(services, "layout_service") THEN Ok(TRUE)
            ELSE IF ~Has(doc.page_size) THEN Raise("KeyError")
            ELSE Ok(/\ Abs(Val(doc.page_size).width_cm - spec.page_width_cm) < 50
                    /\ Abs(Val(doc.page_size).height_cm - spec.page_height_cm) < 50)
      [] name = "format_consistency" ->
            Ok(~(IF Has(doc.has_size_inconsistencies)
                 THEN Val(doc.has_size_inconsistencies) ELSE FALSE))
      [] name = "margins" ->
            IF ServicesGet(services, "layout_service") THEN Ok(TRUE)
            ELSE IF ~Has(doc.margins) THEN Raise("KeyError")
            ELSE Ok(\A side \in MarginSides :
                      Abs(Val(doc.margins)[side] - SpecMargin(spec, side)) < 50)
      [] name = "has_toc" ->
            IF ~spec.requires_toc THEN Ok(TRUE)
            ELSE IF ~Has(doc.has_toc) THEN Raise("KeyError")
            ELSE Ok(Val(doc.has_toc))
      [] name = "no_color_pages" ->
            IF spec.no_color_pages /\ Has(doc.detailed_analysis)
            THEN Ok(/\ ~Val(doc.detailed_analysis).has_color_pages
                    /\ ~Val(doc.detailed_analysis).has_color_text)
            ELSE Ok(TRUE)
      [] name = "no_images" ->
            IF spec.no_images /\ Has(doc.detailed_analysis)
            THEN Ok(\/ ~Has(Val(doc.detailed_analysis).images)
                    \/ Val(Val(doc.detailed_analysis).images).count = 0)
            ELSE Ok(TRUE)
      [] name = "has_header" ->
            IF HasAttr(spec, "requires_header") /\ spec.requires_header
            THEN Ok(Len(IF Has(doc.headers) THEN Val(doc.headers) ELSE <<>>) > 0)
            ELSE Ok(TRUE)
      [] name = "has_footnotes" ->
            IF HasAttr(spec, "requires_footnotes") /\ spec.requires_footnotes
            THEN Ok(Len(IF Has(doc.footnotes) THEN Val(doc.footnotes) ELSE <<>>) > 0)
            ELSE Ok(TRUE)
      [] name = "min_page_count" ->
            IF ~HasAttr(spec, "min_page_count") THEN Raise("AttributeError")
            ELSE IF spec["min_page_count"] > 0
                 THEN Ok(PageCountOrZero(doc) >= spec["min_page_count"])
                 ELSE Ok(TRUE)

-----------------------------------------------------------------------------
(* The three validate_document functions as one stepwise procedure *)

Engines == {"core", "document", "server"}

EngineChecks(engine) ==
    CASE engine = "core"     -> _RULES
      [] engine = "document" -> DocumentChecks
      [] engine = "server"   -> ServerChecks

EngineCheck(engine, name, doc, spec, services) ==
    CASE engine = "core"     -> CoreRule(name, doc, spec, services)
      [] engine = "document" -> DocumentCheck(name, doc, spec, services)
      [] engine = "server"   -> ServerCheck(name, doc, spec, services)

\* Mutant of AllValues: one rule is left out of the conjunction.
AllValues_SkipsLast(validations) ==
    \A k \in DOMAIN validations \ {"min_page_count"} : validations[k]

\* all(validations.values())
AllValues(validations) == \A k \in DOMAIN validations : validations[k]

Running == [kind |-> "running", exc |-> "none", status |-> 0,
            validations |-> EmptyMap, is_valid |-> FALSE]

Report(validations) ==
    [kind |-> "report", exc |-> "none", status |-> 0,
     validations |-> validations, is_valid |-> AllValues(validations)]

Raised(e, status) ==
    [kind |-> "raise", exc |-> e, status |-> status,
     validations |-> EmptyMap, is_valid |-> FALSE]

\* The blocks of one function from the i-th on, run to the end: the report, or
\* the exception of the first block that raises (core.py records False for
\* the rule and goes on).
RECURSIVE RunChecks(_, _, _, _, _, _)
RunChecks(engine, i, validations, doc, spec, services) ==
    IF i > Len(EngineChecks(engine)) THEN Report(validations)
    ELSE LET name == EngineChecks(engine)[i]
             r == EngineCheck(engine, name, doc, spec, services)
         IN  IF r.exc = "none"
             THEN RunChecks(engine, i + 1, (name :> r.val) @@ validations,
                            doc, spec, services)
             ELSE IF engine = "core"
             THEN RunChecks(engine, i + 1, (name :> FALSE) @@ validations,
                            doc, spec, services)
             ELSE Raised(r.exc, 0)

\* validate_document(doc_props, spec, services) of one module, as a whole.
validate_document(engine, doc, spec, services) ==
    IF engine = "core" /\ CoreRejects(doc)
    THEN Raised("HTTPException", 400)
    ELSE RunChecks(engine, 1, EmptyMap, doc, spec, ServicesOrEmpty(services))

-----------------------------------------------------------------------------
(* Inputs of a validation call *)

MaxPositions == 2

Positions == {"left", "center", "right", "missing"}

SeqsUpTo(S, n) == UNION {[1..k -> S] : k \in 0..n}

\* The document of tests/test_validate_document.py.
BaseDoc ==
    [page_size |-> <<[width_cm |-> 1700, height_cm |-> 2400]>>,
     margins |-> <<[top_cm |-> 0, bottom_cm |-> 0, left_cm |-> 0, right_cm |-> 0]>>,
     has_toc |-> <<FALSE>>,
     has_size_inconsistencies |-> Absent,
     detailed_analysis |-> Absent,
     headers |-> Absent,
     footnotes |-> Absent,
     page_count |-> Absent,
     page_num_positions |-> << <<"center">> >>]

DocWidths == {1640, 1641, 1700, 1750, 1759, 1760, 2100}

DocHeights == {2340, 2400, 2459, 2460, 2970}

DocMargins == {0, 49, 50, 250}

PageSizeInputs ==
    {Absent} \cup {<<[width_cm |-> w, height_cm |-> h]>> :
                        w \in DocWidths, h \in DocHeights}

MarginInputs ==
    {Absent} \cup {<<[side \in MarginSides |-> IF side = s THEN d ELSE 0]>> :
                        s \in MarginSides, d \in DocMargins}

OptBool == {Absent, <<TRUE>>, <<FALSE>>}

AnalysisInputs ==
    {Absent} \cup
    {<<[has_color_pages |-> cp, has_color_text |-> ct, images |-> im]>> :
        cp \in BOOLEAN, ct \in BOOLEAN,
        im \in {Absent, <<[count |-> 0]>>, <<[count |-> 2]>>}}

TextListInputs == {Absent, << <<>> >>, << <<"text">> >>}

PageCountInputs == {Absent, <<0>>, <<39>>, <<40>>, <<41>>}

PositionInputs == {Absent} \cup {<<p>> : p \in SeqsUpTo(Positions, MaxPositions)}

\* A document with several rules failing at once.
WorstDoc ==
    [page_size |-> <<[width_cm |-> 2100, height_cm |-> 2970]>>,
     margins |-> <<[top_cm |-> 250, bottom_cm |-> 250, left_cm |-> 250, right_cm |-> 250]>>,
     has_toc |-> <<FALSE>>,
     has_size_inconsistencies |-> <<TRUE>>,
     detailed_analysis |->
        <<[has_color_pages |-> TRUE, has_color_text |-> TRUE,
           images |-> <<[count |-> 2]>>]>>,
     headers |-> << <<>> >>,
     footnotes |-> << <<>> >>,
     page_count |-> <<0>>,
     page_num_positions |-> << <<"missing">> >>]

\* The documents tried: BaseDoc and WorstDoc with one key varied at a time.
DocInputs ==
    UNION {
        {[d EXCEPT !.page_size = x] : x \in PageSizeInputs}
        \cup {[d EXCEPT !.margins = x] : x \in MarginInputs}
        \cup {[d EXCEPT !.has_toc = x] : x \in OptBool}
        \cup {[d EXCEPT !.has_size_inconsistencies = x] : x \in OptBool}
        \cup {[d EXCEPT !.detailed_analysis = x] : x \in AnalysisInputs}
        \cup {[d EXCEPT !.headers = x] : x \in TextListInputs}
        \cup {[d EXCEPT !.footnotes = x] : x \in TextListInputs}
        \cup {[d EXCEPT !.page_count = x] : x \in PageCountInputs}
        \cup {[d EXCEPT !.page_num_positions = x] : x \in PositionInputs}
        : d \in {BaseDoc, WorstDoc}}

\* The keyword arguments of the test's DocumentSpec (name left out).
BaseKwargs ==
    [f \in SpecFields \ FlagFields |->
        CASE f = "page_width_cm"  -> 1700
          [] f = "page_height_cm" -> 2400
          [] OTHER                -> 0]

A4Kwargs ==
    [f \in SpecFields \ FlagFields |->
        CASE f = "page_width_cm"  -> 2100
          [] f = "page_height_cm" -> 2970
          [] OTHER                -> 250]

WithKeys(kwargs, keys, v) ==
    [f \in DOMAIN kwargs \cup keys |-> IF f \in keys THEN v ELSE kwargs[f]]

KwargsInputs ==
    {BaseKwargs, A4Kwargs, WithKeys(BaseKwargs, FlagFields, TRUE)}
    \cup {WithKeys(BaseKwargs, {f}, TRUE) : f \in FlagFields}
    \cup {WithKeys(BaseKwargs, {"min_page_count"}, n) : n \in {0, 40}}

ServicesInputs ==
    {Absent, <<EmptyMap>>,
     <<[k \in {"layout_service"} |-> TRUE]>>,
     <<[k \in {"layout_service"} |-> FALSE]>>,
     <<[k \in {"cover_service"} |-> TRUE]>>}

-----------------------------------------------------------------------------
(* validate_document, step by step *)

InitV ==
    /\ v_engine \in Engines
    /\ v_doc \in DocInputs
    /\ v_kwargs \in KwargsInputs
    /\ v_spec = DocumentSpec(v_kwargs)
    /\ v_services \in ServicesInputs
    /\ v_pc = 0
    /\ v_validations = EmptyMap
    /\ v_out = Running

\* Entry: core.py rejects a doc_props without page_size with HTTP 400 before
\* any rule runs; the two other functions have no such guard.
ValidateEnter ==
    /\ v_out.kind = "running"
    /\ v_pc = 0
    /\ IF v_engine = "core" /\ CoreRejects(v_doc)
       THEN /\ v_out' = Raised("HTTPException", 400)
            /\ UNCHANGED <<v_pc>>
       ELSE /\ v_pc' = 1
            /\ UNCHANGED <<v_out>>
    /\ UNCHANGED <<v_engine, v_doc, v_kwargs, v_spec, v_services, v_validations>>
    /\ UNCHANGED OutsideV

\* One rule (core.py: one iteration of the loop, with its try/except; the other
\* two: one block, whose exception leaves the function).
ValidateRule ==
    /\ v_out.kind = "running"
    /\ v_pc \in 1..Len(EngineChecks(v_engine))
    /\ LET name == EngineChecks(v_engine)[v_pc]
           r == EngineCheck(v_engine, name, v_doc, v_spec,
                            ServicesOrEmpty(v_services))
       IN  IF r.exc = "none"
           THEN /\ v_validations' = (name :> r.val) @@ v_validations
                /\ v_pc' = v_pc + 1
                /\ UNCHANGED v_out
           ELSE IF v_engine = "core"
           THEN /\ v_validations' = (name :> FALSE) @@ v_validations
                /\ v_pc' = v_pc + 1
                /\ UNCHANGED v_out
           ELSE /\ v_out' = Raised(r.exc, 0)
                /\ UNCHANGED <<v_validations, v_pc>>
    /\ UNCHANGED <<v_engine, v_doc, v_kwargs, v_spec, v_services>>
    /\ UNCHANGED OutsideV

\* return {"validations": validations, "is_valid": all(validations.values())}
ValidateReturn ==
    /\ v_out.kind = "running"
    /\ v_pc = Len(EngineChecks(v_engine)) + 1
    /\ v_out' = Report(v_validations)
    /\ UNCHANGED <<v_engine, v_doc, v_kwargs, v_spec, v_services, v_pc, v_validations>>
    /\ UNCHANGED OutsideV

NextV == ValidateEnter \/ ValidateRule \/ ValidateReturn

-----------------------------------------------------------------------------
(* services/document.py and server.py side by side.  Both functions read    *)
(* spec.min_page_count, which models.DocumentSpec does not declare; the     *)
(* spec objects tried are the DocumentSpec of the keyword arguments and the *)
(* same object with the attribute, as a subclass declaring the field gives. *)

Copies == {"document", "server"}

OtherCopy(engine) == IF engine = "document" THEN "server" ELSE "document"

MinPagesInputs == {0, 40}

WithMinPageCount(spec, n) == ("min_page_count" :> n) @@ spec

CopiesKwargs == {BaseKwargs, A4Kwargs, WithKeys(BaseKwargs, FlagFields, TRUE)}

CopiesServices == {Absent, <<[k \in {"layout_service"} |-> TRUE]>>}

InitCopies ==
    /\ v_engine \in Copies
    /\ v_doc \in DocInputs
    /\ v_kwargs \in CopiesKwargs
    /\ v_spec \in {DocumentSpec(v_kwargs)}
                  \cup {WithMinPageCount(DocumentSpec(v_kwargs), n) :
                            n \in MinPagesInputs}
    /\ v_services \in CopiesServices
    /\ v_pc = 0
    /\ v_validations = EmptyMap
    /\ v_out = Running

-----------------------------------------------------------------------------
(* Byte buffers.  A buffer is described by what the libraries read in it:   *)
(* its real format, the number of pages it has (a PDF) or renders to, and   *)
(* the layout facts an extractor reports.  rendered marks the converter's   *)
(* output, which is a new buffer and never the uploaded one.  text says      *)
(* whether the body has text: spans on a PDF's pages, runs in a DOCX's      *)
(* paragraphs; a document with text uses one font on every page.            *)

MaxPages == 2

Kinds == {"pdf", "docx", "odt", "doc", "junk"}

Layouts ==
    {[width_cm |-> 1700, height_cm |-> 2400, margin_cm |-> 0,
      has_toc |-> FALSE, numpos |-> "center", sized |-> TRUE, text |-> TRUE],
     [width_cm |-> 1700, height_cm |-> 2400, margin_cm |-> 0,
      has_toc |-> FALSE, numpos |-> "missing", sized |-> TRUE, text |-> FALSE],
     [width_cm |-> 2100, height_cm |-> 2970, margin_cm |-> 250,
      has_toc |-> TRUE, numpos |-> "missing", sized |-> FALSE, text |-> FALSE]}

Files ==
    [kind : Kinds, pages : 0..MaxPages, layout : Layouts, rendered : {FALSE}]

DefaultAnalysis ==
    [has_color_pages |-> FALSE, has_color_text |-> FALSE, images |-> Absent]

AllMargins(m) == [side \in MarginSides |-> m]

\* What a called function gives back: a value, or an exception.
Returned(v) == [exc |-> "none", detail |-> "", status |-> 0, ret |-> <<v>>]

Failed(e, detail, status) ==
    [exc |-> e, detail |-> detail, status |-> status, ret |-> <<>>]

\* extract_pdf_detailed_analysis: metadata copies every non-empty entry of the
\* PDF's information dictionary but format and encryption, creationDate
\* included.  An uploaded PDF holds its date in its bytes (0 here); the PDF
\* soffice has just written holds the time of that run.
PdfMetadata(f) == [creationDate |-> IF f.rendered THEN f.created ELSE 0]

PdfAnalysis(f) ==
    [has_color_pages |-> FALSE, has_color_text |-> FALSE, images |-> Absent,
     metadata |-> PdfMetadata(f)]

\* The dict an extraction of a PDF builds: page_count is len(reader.pages)
\* and page_num_positions has one entry per page.  The keywords of a table of
\* contents, the headers, the footnotes and the page numbers are read in the
\* pages' text.
PdfDict(f) ==
    [page_size |-> <<[width_cm |-> f.layout.width_cm,
                      height_cm |-> f.layout.height_cm]>>,
     margins |-> <<AllMargins(f.layout.margin_cm)>>,
     has_toc |-> <<f.layout.text /\ f.layout.has_toc>>,
     has_size_inconsistencies |-> <<FALSE>>,
     detailed_analysis |-> <<PdfAnalysis(f)>>,
     headers |-> <<IF f.layout.text THEN <<"text">> ELSE <<>> >>,
     footnotes |-> <<IF f.layout.text THEN <<"text">> ELSE <<>> >>,
     page_count |-> <<f.pages>>,
     page_num_positions |->
        <<[i \in 1..f.pages |->
              IF f.layout.text THEN f.layout.numpos ELSE "missing"]>>]

\* extract_pdf_properties: PyPDF2 cannot read a buffer that is no PDF; a PDF
\* without pages is refused with HTTP 400; the detailed analysis raises
\* AttributeError at the first text span (fi.size_counts, UpdateFont).
extract_pdf_properties(f) ==
    IF f.kind # "pdf" THEN Failed("PdfReadError", "", 0)
    ELSE IF f.pages = 0 THEN Failed("HTTPException", "PDF file has no pages", 400)
    ELSE IF f.layout.text THEN Failed("AttributeError", "size_counts", 0)
    ELSE Returned(PdfDict(f))

\* server.py: extract_pdf_properties, the one services/document.py and
\* server.py call: the same refusals, and a dict without page_num_positions.
\* Its detailed analysis walks page.get_fonts() and reads size_counts of a
\* font it has already met: it raises when a second page uses the font.
server_extract_pdf_properties(f) ==
    IF f.kind # "pdf" THEN Failed("PdfReadError", "", 0)
    ELSE IF f.pages = 0 THEN Failed("HTTPException", "PDF file has no pages", 400)
    ELSE IF f.layout.text /\ f.pages >= 2
    THEN Failed("AttributeError", "size_counts", 0)
    ELSE Returned([PdfDict(f) EXCEPT !.page_num_positions = Absent])

\* The extract_pdf_properties a dispatcher imports.
PdfExtractorOf(impl, f) ==
    IF impl \in {"document", "server"} THEN server_extract_pdf_properties(f)
    ELSE extract_pdf_properties(f)

\* extract_docx_properties: python-docx cannot open a buffer that is no DOCX;
\* the detailed analysis raises AttributeError at the first run
\* (fi.size_counts, UpdateFont); the dict returned has neither page_count nor
\* page_num_positions.
extract_docx_properties(f) ==
    IF f.kind # "docx" THEN Failed("PackageNotFoundError", "", 0)
    ELSE IF f.layout.text THEN Failed("AttributeError", "size_counts", 0)
    ELSE Returned(
        [page_size |-> <<[width_cm |-> f.layout.width_cm,
                          height_cm |-> f.layout.height_cm]>>,
         margins |-> <<AllMargins(f.layout.margin_cm)>>,
         has_toc |-> <<f.layout.has_toc>>,
         has_size_inconsistencies |-> <<FALSE>>,
         detailed_analysis |-> <<DefaultAnalysis>>,
         headers |-> << <<>> >>,
         footnotes |-> << <<>> >>,
         page_count |-> Absent,
         page_num_positions |-> Absent])

\* extract_odt_properties: odfpy cannot load a buffer that is no ODT; without
\* page-layout properties (sized = FALSE) the minimal fallback dict is returned.
extract_odt_properties(f) ==
    IF f.kind # "odt" THEN Failed("BadZipFile", "", 0)
    ELSE IF ~f.layout.sized
    THEN Returned(
        [page_size |-> <<[width_cm |-> 0, height_cm |-> 0]>>,
         margins |-> <<AllMargins(0)>>,
         has_toc |-> <<FALSE>>,
         has_size_inconsistencies |-> Absent,
         detailed_analysis |-> <<DefaultAnalysis>>,
         headers |-> Absent,
         footnotes |-> Absent,
         page_count |-> Absent,
         page_num_positions |-> Absent])
    ELSE Returned(
        [page_size |-> <<[width_cm |-> f.layout.width_cm,
                          height_cm |-> f.layout.height_cm]>>,
         margins |-> <<AllMargins(f.layout.margin_cm)>>,
         has_toc |-> <<f.layout.has_toc>>,
         has_size_inconsistencies |-> Absent,
         detailed_analysis |-> <<DefaultAnalysis>>,
         headers |-> << <<>> >>,
         footnotes |-> << <<>> >>,
         page_count |-> Absent,
         page_num_positions |-> Absent])

\* utils/conversion.py: extract_pdf_page_count
extract_pdf_page_count(f) ==
    IF f.kind # "pdf" THEN Failed("ValueError", "File PDF non valido o corrotto", 0)
    ELSE Returned(f.pages)

-----------------------------------------------------------------------------
(* utils/conversion.py: convert_to_pdf_via_lo.  What the soffice subprocess *)
(* does is outside the program: it is missing, it overruns the 30 s         *)
(* timeout, it exits non-zero, it exits 0 without writing input.pdf, or it  *)
(* writes a file of some content.                                           *)

\* The dates a converted PDF can carry (when soffice wrote it).
MaxStamp == 2

Stamps == 1..MaxStamp

SubprocessRuns(src) ==
    {[how |-> h, pdf |-> src] : h \in {"missing", "timeout", "nonzero", "no_pdf"}}
    \cup {[how |-> "ok",
           pdf |-> [kind |-> k, pages |-> n, layout |-> src.layout,
                    rendered |-> TRUE, created |-> t]] :
            k \in {"pdf", "junk"}, n \in 0..MaxPages, t \in Stamps}

convert_to_pdf_via_lo(src, ext, run) ==
    CASE run.how = "missing" -> Failed("FileNotFoundError", "LibreOffice non trovato", 0)
      [] run.how = "timeout" -> Failed("RuntimeError", "Timeout durante la conversione", 0)
      [] run.how = "nonzero" -> Failed("RuntimeError", "Errore durante la conversione", 0)
      [] run.how = "no_pdf"  -> Failed("RuntimeError", "non e' riuscito a creare il PDF", 0)
      [] run.how = "ok"      -> Returned(run.pdf)

\* utils/async_conversion.py: the same call in a thread, under
\* asyncio.wait_for(timeout=90), which may give up first.
convert_to_pdf_via_lo_async(src, ext, run, waited_out) ==
    IF waited_out THEN Failed("TimeoutError", "", 0)
    ELSE convert_to_pdf_via_lo(src, ext, run)

-----------------------------------------------------------------------------
(* str.lower() for the characters that occur in the extensions tried *)

UpperToLower ==
    [c \in {"D", "O", "C", "X", "T", "P", "F"} |->
        CASE c = "D" -> "d" [] c = "O" -> "o" [] c = "C" -> "c" [] c = "X" -> "x"
          [] c = "T" -> "t" [] c = "P" -> "p" [] c = "F" -> "f"]

\* Mutant of Lower: the extension is compared as given.
Lower_Identity(str) == str

\* file_format.lower()
Lower(str) ==
    [i \in 1..Len(str) |->
        IF str[i] \in DOMAIN UpperToLower THEN UpperToLower[str[i]] ELSE str[i]]

DOC == <<"d", "o", "c">>

DOCX == <<"d", "o", "c", "x">>

ODT == <<"o", "d", "t">>

PDF == <<"p", "d", "f">>

FormatInputs ==
    {DOC, DOCX, ODT, PDF,
     <<"D", "O", "C">>, <<"D", "o", "c", "X">>, <<"O", "d", "t">>, <<"P", "D", "F">>,
     <<"t", "x", "t">>, <<"r", "t", "f">>, <<"d", "o", "c", "m">>, <<"p", "d">>,
     <<".", "p", "d", "f">>, <<>>}

-----------------------------------------------------------------------------
(* process_document (extract/base.py, services/document.py, server.py) and  *)
(* process_document_async (extract/async_base.py), statement by statement   *)

Dispatchers == {"base", "document", "server", "async_base"}

DRunning == [kind |-> "running", exc |-> "none", detail |-> "", status |-> 0,
             props |-> <<>>]

DReturn(props) == [kind |-> "return", exc |-> "none", detail |-> "", status |-> 0,
                   props |-> <<props>>]

DRaise(r) == [kind |-> "raise", exc |-> r.exc, detail |-> r.detail,
              status |-> r.status, props |-> <<>>]

Call(fn, arg, r) == [fn |-> fn, arg |-> arg, exc |-> r.exc, ret |-> r.ret]

\* The branch the if-chain takes for fmt.
Branch(fmt) ==
    CASE fmt = DOC  -> "doc_convert"
      [] fmt = DOCX -> "docx_extract"
      [] fmt = ODT  -> "odt_extract"
      [] fmt = PDF  -> "pdf_extract"
      [] OTHER      -> "unsupported"

\* Mutant of PdfExtractorInput: the doc branch hands over the uploaded bytes.
PdfExtractorInput_Original(pc, file_content, pdf_bytes) == file_content

\* The argument of extract_pdf_properties: pdf_bytes in the doc branch,
\* file_content in the pdf branch.
PdfExtractorInput(pc, file_content, pdf_bytes) ==
    IF pc = "doc_extract" THEN Val(pdf_bytes) ELSE file_content

\* Mutant of SetPageCount: the converter's count is dropped.
SetPageCount_Dropped(props, n) == props

\* doc_props["page_count"] = n
SetPageCount(props, n) == [props EXCEPT !.page_count = <<n>>]

InitD ==
    /\ d_impl \in Dispatchers
    /\ d_file \in Files
    /\ d_format \in FormatInputs
    /\ d_pc = "start"
    /\ d_props = <<>>
    /\ d_pdf = <<>>
    /\ d_calls = <<>>
    /\ d_out = DRunning

\* fmt = file_format.lower() and the if-chain; the final raise for a format
\* that matches no branch.
Dispatch ==
    /\ d_out.kind = "running"
    /\ d_pc = "start"
    /\ LET b == Branch(Lower(d_format)) IN
       IF b = "unsupported"
       THEN /\ d_out' = DRaise(Failed("HTTPException", "Unsupported file format", 400))
            /\ UNCHANGED d_pc
       ELSE /\ d_pc' = b
            /\ UNCHANGED d_out
    /\ UNCHANGED <<d_impl, d_file, d_format, d_props, d_pdf, d_calls>>
    /\ UNCHANGED OutsideD

\* pdf_bytes = convert_to_pdf_via_lo(file_content, ext), awaited in async_base
CallConverter ==
    /\ d_out.kind = "running"
    /\ d_pc \in {"doc_convert", "docx_convert", "odt_convert"}
    /\ \E run \in SubprocessRuns(d_file), waited_out \in BOOLEAN :
        /\ waited_out => d_impl = "async_base"
        /\ LET ext == CASE d_pc = "doc_convert" -> DOC
                        [] d_pc = "docx_convert" -> DOCX
                        [] d_pc = "odt_convert" -> ODT
               r == IF d_impl = "async_base"
                    THEN convert_to_pdf_via_lo_async(d_file, ext, run, waited_out)
                    ELSE convert_to_pdf_via_lo(d_file, ext, run)
           IN  /\ d_calls' = Append(d_calls, Call("convert", d_file, r))
               /\ IF r.exc = "none"
                  THEN /\ d_pdf' = r.ret
                       /\ d_pc' = CASE d_pc = "doc_convert" -> "doc_extract"
                                    [] d_pc = "docx_convert" -> "docx_count"
                                    [] d_pc = "odt_convert" -> "odt_count"
                       /\ UNCHANGED d_out
                  ELSE /\ d_out' = DRaise(r)
                       /\ UNCHANGED <<d_pdf, d_pc>>
    /\ UNCHANGED <<d_impl, d_file, d_format, d_props>>
    /\ UNCHANGED OutsideD

\* doc_props = extract_docx_properties(file_content), or the odt one
CallNativeExtractor ==
    /\ d_out.kind = "running"
    /\ d_pc \in {"docx_extract", "odt_extract"}
    /\ LET fn == IF d_pc = "docx_extract" THEN "extract_docx" ELSE "extract_odt"
           r == IF d_pc = "docx_extract" THEN extract_docx_properties(d_file)
                ELSE extract_odt_properties(d_file)
       IN  /\ d_calls' = Append(d_calls, Call(fn, d_file, r))
           /\ IF r.exc = "none"
              THEN /\ d_props' = r.ret
                   /\ d_pc' = IF d_pc = "docx_extract" THEN "docx_convert"
                              ELSE "odt_convert"
                   /\ UNCHANGED d_out
              ELSE /\ d_out' = DRaise(r)
                   /\ UNCHANGED <<d_props, d_pc>>
    /\ UNCHANGED <<d_impl, d_file, d_format, d_pdf>>
    /\ UNCHANGED OutsideD

\* return extract_pdf_properties(...)
CallPdfExtractor ==
    /\ d_out.kind = "running"
    /\ d_pc \in {"doc_extract", "pdf_extract"}
    /\ LET arg == PdfExtractorInput(d_pc, d_file, d_pdf)
           r == PdfExtractorOf(d_impl, arg)
       IN  /\ d_calls' = Append(d_calls, Call("extract_pdf", arg, r))
           /\ d_out' = IF r.exc = "none" THEN DReturn(Val(r.ret)) ELSE DRaise(r)
    /\ UNCHANGED <<d_impl, d_file, d_format, d_pc, d_props, d_pdf>>
    /\ UNCHANGED OutsideD

\* doc_props["page_count"] = extract_pdf_page_count(pdf_bytes); return doc_props
CountPages ==
    /\ d_out.kind = "running"
    /\ d_pc \in {"docx_count", "odt_count"}
    /\ LET r == extract_pdf_page_count(Val(d_pdf))
       IN  /\ d_calls' = Append(d_calls, Call("page_count", Val(d_pdf), r))
           /\ IF r.exc = "none"
              THEN /\ d_props' = <<SetPageCount(Val(d_props), Val(r.ret))>>
                   /\ d_out' = DReturn(SetPageCount(Val(d_props), Val(r.ret)))
              ELSE /\ d_out' = DRaise(r)
                   /\ UNCHANGED d_props
    /\ UNCHANGED <<d_impl, d_file, d_format, d_pc, d_pdf>>
    /\ UNCHANGED OutsideD

NextD == Dispatch \/ CallConverter \/ CallNativeExtractor \/ CallPdfExtractor
         \/ CountPages

-----------------------------------------------------------------------------
(* extract/base.py: process_document called twice on the same buffer with   *)
(* the same extension.  The LibreOffice installed is the same for both      *)
(* calls: whenever it writes a PDF for this buffer, the PDF has the same    *)
(* pages (r_lo), and is dated with the time of the run.  How a run ends     *)
(* (missing, timeout, exit status) is free for each call.                   *)

Renderings == [kind : {"pdf", "junk"}, pages : 0..MaxPages]

InitR ==
    /\ InitD
    /\ d_impl = "base"
    /\ r_run = 1
    /\ r_first = DRunning
    /\ r_now = 1
    /\ r_lo \in Renderings

\* What the installation and the clock decide about a conversion step.
SameInstallation ==
    d_pdf' # <<>> =>
        /\ Val(d_pdf').kind = r_lo.kind
        /\ Val(d_pdf').pages = r_lo.pages
        /\ Val(d_pdf').created = r_now

\* pdf_bytes = convert_to_pdf_via_lo(file_content, ext) on this installation
CallInstalledConverter == CallConverter /\ SameInstallation

\* The first call is over; process_document is called again with the same
\* file_content and file_format.  Time has passed, perhaps less than the
\* resolution of the date stamp.
RunAgain ==
    /\ r_run = 1
    /\ d_out.kind # "running"
    /\ r_first' = d_out
    /\ r_run' = 2
    /\ \E t \in {r_now, r_now + 1} : t \in Stamps /\ r_now' = t
    /\ d_pc' = "start"
    /\ d_props' = <<>>
    /\ d_pdf' = <<>>
    /\ d_calls' = <<>>
    /\ d_out' = DRunning
    /\ UNCHANGED <<d_impl, d_file, d_format, r_lo>>
    /\ UNCHANGED OutsideR

-----------------------------------------------------------------------------
(* Two requests at once.  Each runs process_document_async and then          *)
(* core.validate_document.  The statements outside the conversion run in the *)
(* event loop, one request at a time between two awaits; the conversions run *)
(* in threads (asyncio.to_thread) and interleave statement by statement, and *)
(* so do their soffice children.  The only thing the two have in common is   *)
(* the file system: t_fs maps a directory name to its files (Absent: no such *)
(* directory), a file name to its bytes.                                     *)

Tasks == {1, 2}

DirNames == {"tmp_a", "tmp_b"}

NoFiles == [n \in {} |-> <<>>]

InputName(ext) ==
    CASE Lower(ext) = DOC  -> "input.doc"
      [] Lower(ext) = DOCX -> "input.docx"
      [] Lower(ext) = ODT  -> "input.odt"
      [] OTHER             -> "input"

\* Mutant of FreshDirs: every call works in the same directory.
FreshDirs_Shared(fs) == {"tmp_a"}

\* tempfile.TemporaryDirectory(): mkdtemp creates a directory that did not
\* exist, under a name of its choice.
FreshDirs(fs) == {d \in DirNames : fs[d] = Absent}

\* path.write_bytes(content)
WriteFile(fs, d, name, content) ==
    IF fs[d] = Absent THEN fs
    ELSE [fs EXCEPT ![d] = <<(name :> content) @@ Val(fs[d])>>]

\* The bytes at a path, Absent when there is no such file.
FileAt(fs, d, name) ==
    IF fs[d] # Absent /\ name \in DOMAIN Val(fs[d]) THEN <<Val(fs[d])[name]>>
    ELSE Absent

\* The PDF soffice makes of a document it has read.
RenderOf(content) ==
    [kind |-> "pdf", pages |-> content.pages, layout |-> content.layout,
     rendered |-> TRUE, created |-> 1]

Hows == {"missing", "timeout", "nonzero", "no_pdf", "ok"}

TaskPending == [exc |-> "pending", detail |-> "", status |-> 0, ret |-> <<>>]

TaskDocs ==
    {f \in Files : /\ f.kind \in {"doc", "docx", "odt", "pdf"}
                   /\ f.pages >= 1
                   /\ f.layout.sized
                   /\ f.kind \in {"doc", "pdf"} => f.pages = 1}

ExtOf(f) ==
    CASE f.kind = "doc" -> DOC [] f.kind = "docx" -> DOCX
      [] f.kind = "odt" -> ODT [] f.kind = "pdf" -> PDF

\* The statements of process_document_async after the awaited conversion.
AfterConversion(ext, props, conv) ==
    IF conv.exc # "none" THEN DRaise(conv)
    ELSE IF Lower(ext) = DOC
    THEN LET r == extract_pdf_properties(Val(conv.ret)) IN
         IF r.exc = "none" THEN DReturn(Val(r.ret)) ELSE DRaise(r)
    ELSE LET n == extract_pdf_page_count(Val(conv.ret)) IN
         IF n.exc = "none" THEN DReturn(SetPageCount(Val(props), Val(n.ret)))
         ELSE DRaise(n)

InitT ==
    /\ t_file \in [Tasks -> TaskDocs]
    /\ t_ext = [i \in Tasks |-> ExtOf(t_file[i])]
    /\ t_how \in [Tasks -> Hows]
    /\ \A i \in Tasks : t_file[i].kind = "pdf" => t_how[i] = "ok"
    /\ t_pc = [i \in Tasks |-> "start"]
    /\ t_props = [i \in Tasks |-> <<>>]
    /\ t_tmp = [i \in Tasks |-> <<>>]
    /\ t_seen = [i \in Tasks |-> <<>>]
    /\ t_res = [i \in Tasks |-> TaskPending]
    /\ t_out = [i \in Tasks |-> DRunning]
    /\ t_report = [i \in Tasks |-> Running]
    /\ t_fs = [d \in DirNames |-> Absent]

\* fmt = file_format.lower(), the if-chain and, for docx and odt, the native
\* extractor; the request then awaits the conversion (the thread starts).
TaskDispatch(i) ==
    /\ t_pc[i] = "start"
    /\ LET b == Branch(Lower(t_ext[i])) IN
       CASE b = "doc_convert" ->
              /\ t_pc' = [t_pc EXCEPT ![i] = "mkdtemp"]
              /\ UNCHANGED <<t_props, t_out>>
         [] b \in {"docx_extract", "odt_extract"} ->
              LET r == IF b = "docx_extract" THEN extract_docx_properties(t_file[i])
                       ELSE extract_odt_properties(t_file[i])
              IN  IF r.exc = "none"
                  THEN /\ t_props' = [t_props EXCEPT ![i] = r.ret]
                       /\ t_pc' = [t_pc EXCEPT ![i] = "mkdtemp"]
                       /\ UNCHANGED t_out
                  ELSE /\ t_out' = [t_out EXCEPT ![i] = DRaise(r)]
                       /\ t_pc' = [t_pc EXCEPT ![i] = "done"]
                       /\ UNCHANGED t_props
         [] b = "pdf_extract" ->
              LET r == extract_pdf_properties(t_file[i]) IN
              /\ t_out' = [t_out EXCEPT ![i] =
                              IF r.exc = "none" THEN DReturn(Val(r.ret)) ELSE DRaise(r)]
              /\ t_pc' = [t_pc EXCEPT ![i] =
                              IF r.exc = "none" THEN "validate" ELSE "done"]
              /\ UNCHANGED t_props
         [] OTHER ->
              /\ t_out' = [t_out EXCEPT ![i] =
                    DRaise(Failed("HTTPException", "Unsupported file format", 400))]
              /\ t_pc' = [t_pc EXCEPT ![i] = "done"]
              /\ UNCHANGED t_props
    /\ UNCHANGED <<t_file, t_ext, t_how, t_tmp, t_seen, t_res, t_report, t_fs>>
    /\ UNCHANGED OutsideT

\* with tempfile.TemporaryDirectory() as tmp:
TaskMkdtemp(i) ==
    /\ t_pc[i] = "mkdtemp"
    /\ \E d \in FreshDirs(t_fs) :
        /\ t_tmp' = [t_tmp EXCEPT ![i] = <<d>>]
        /\ t_fs' = [t_fs EXCEPT ![d] = IF @ = Absent THEN <<NoFiles>> ELSE @]
    /\ t_pc' = [t_pc EXCEPT ![i] = "write"]
    /\ UNCHANGED <<t_file, t_ext, t_how, t_props, t_seen, t_res, t_out, t_report>>
    /\ UNCHANGED OutsideT

\* src_path.write_bytes(src_bytes); without the directory, FileNotFoundError,
\* which the function's own except clause takes for a missing soffice.
TaskWrite(i) ==
    /\ t_pc[i] = "write"
    /\ IF t_fs[Val(t_tmp[i])] = Absent
       THEN /\ t_res' = [t_res EXCEPT ![i] =
                    Failed("FileNotFoundError", "LibreOffice non trovato", 0)]
            /\ t_pc' = [t_pc EXCEPT ![i] = "cleanup"]
            /\ UNCHANGED t_fs
       ELSE /\ t_fs' = WriteFile(t_fs, Val(t_tmp[i]), InputName(t_ext[i]), t_file[i])
            /\ t_pc' = [t_pc EXCEPT ![i] = "spawn"]
            /\ UNCHANGED t_res
    /\ UNCHANGED <<t_file, t_ext, t_how, t_props, t_tmp, t_seen, t_out, t_report>>
    /\ UNCHANGED OutsideT

\* subprocess.run([... str(src_path), "--outdir", str(src_path.parent)]):
\* without the executable FileNotFoundError; else the child starts and reads
\* the file at src_path.
TaskSpawn(i) ==
    /\ t_pc[i] = "spawn"
    /\ IF t_how[i] = "missing"
       THEN /\ t_res' = [t_res EXCEPT ![i] =
                    Failed("FileNotFoundError", "LibreOffice non trovato", 0)]
            /\ t_pc' = [t_pc EXCEPT ![i] = "cleanup"]
            /\ UNCHANGED t_seen
       ELSE /\ t_seen' = [t_seen EXCEPT ![i] =
                    FileAt(t_fs, Val(t_tmp[i]), InputName(t_ext[i]))]
            /\ t_pc' = [t_pc EXCEPT ![i] = "child"]
            /\ UNCHANGED t_res
    /\ UNCHANGED <<t_file, t_ext, t_how, t_props, t_tmp, t_out, t_report, t_fs>>
    /\ UNCHANGED OutsideT

\* The child is over: killed at the timeout, or exited; a successful one has
\* written input.pdf next to the file it read.
TaskChildExit(i) ==
    /\ t_pc[i] = "child"
    /\ t_fs' = IF t_how[i] = "ok" /\ t_seen[i] # Absent
               THEN WriteFile(t_fs, Val(t_tmp[i]), "input.pdf", RenderOf(Val(t_seen[i])))
               ELSE t_fs
    /\ t_pc' = [t_pc EXCEPT ![i] = "collect"]
    /\ UNCHANGED <<t_file, t_ext, t_how, t_props, t_tmp, t_seen, t_res, t_out,
                   t_report>>
    /\ UNCHANGED OutsideT

\* subprocess.run returns or raises; if not pdf_path.exists(): raise
\* RuntimeError; return pdf_path.read_bytes()
TaskCollect(i) ==
    /\ t_pc[i] = "collect"
    /\ LET pdf == FileAt(t_fs, Val(t_tmp[i]), "input.pdf")
           run == [how |-> IF t_how[i] \in {"timeout", "nonzero"} THEN t_how[i]
                           ELSE IF pdf # Absent THEN "ok" ELSE "no_pdf",
                   pdf |-> IF pdf # Absent THEN Val(pdf) ELSE t_file[i]]
       IN  t_res' = [t_res EXCEPT ![i] = convert_to_pdf_via_lo(t_file[i], t_ext[i], run)]
    /\ t_pc' = [t_pc EXCEPT ![i] = "cleanup"]
    /\ UNCHANGED <<t_file, t_ext, t_how, t_props, t_tmp, t_seen, t_out, t_report,
                   t_fs>>
    /\ UNCHANGED OutsideT

\* TemporaryDirectory.__exit__: the directory and its files are removed.
TaskCleanup(i) ==
    /\ t_pc[i] = "cleanup"
    /\ t_fs' = [t_fs EXCEPT ![Val(t_tmp[i])] = Absent]
    /\ t_pc' = [t_pc EXCEPT ![i] = "resume"]
    /\ UNCHANGED <<t_file, t_ext, t_how, t_props, t_tmp, t_seen, t_res, t_out,
                   t_report>>
    /\ UNCHANGED OutsideT

\* The await is over: the rest of process_document_async.
TaskResume(i) ==
    /\ t_pc[i] = "resume"
    /\ LET out == AfterConversion(t_ext[i], t_props[i], t_res[i]) IN
       /\ t_out' = [t_out EXCEPT ![i] = out]
       /\ t_pc' = [t_pc EXCEPT ![i] = IF out.kind = "return" THEN "validate" ELSE "done"]
    /\ UNCHANGED <<t_file, t_ext, t_how, t_props, t_tmp, t_seen, t_res, t_report,
                   t_fs>>
    /\ UNCHANGED OutsideT

\* core.validate_document(doc_props, spec, services): it reads _RULES and its
\* arguments and writes its local validations only.
TaskValidate(i) ==
    /\ t_pc[i] = "validate"
    /\ t_report' = [t_report EXCEPT ![i] =
            validate_document("core", Val(t_out[i].props),
                              DocumentSpec(BaseKwargs), Absent)]
    /\ t_pc' = [t_pc EXCEPT ![i] = "done"]
    /\ UNCHANGED <<t_file, t_ext, t_how, t_props, t_tmp, t_seen, t_res, t_out,
                   t_fs>>
    /\ UNCHANGED OutsideT

-----------------------------------------------------------------------------
(* utils/conversion.py and utils/async_conversion.py: one conversion, step  *)
(* by step, with the clock.  The soffice executable is outside the program: *)
(* c_env says whether it is missing, never exits by itself ("timeout"),     *)
(* exits non-zero, exits 0 without a PDF, or exits 0 with a PDF; when it    *)
(* exits is not known.                                                      *)

\* timeout=30 of subprocess.run
_SUBPROCESS_TIMEOUT == 30

_DEFAULT_TO_THREAD_TIMEOUT == 90

\* The clock's grain.
ClockStep == 10

MaxClock == _DEFAULT_TO_THREAD_TIMEOUT + _SUBPROCESS_TIMEOUT + ClockStep

Pending == [exc |-> "pending", detail |-> "", status |-> 0, ret |-> <<>>]

\* Mutant of RunTimedOut: subprocess.run is given no timeout.
RunTimedOut_Never(clock, start) == FALSE

\* subprocess.run(..., timeout=30): the time the child has had is up.
RunTimedOut(clock, start) == clock - start >= _SUBPROCESS_TIMEOUT

\* asyncio.wait_for(..., timeout=timeout): the time the awaitable has had is up.
WaitForTimedOut(clock) == clock >= _DEFAULT_TO_THREAD_TIMEOUT

ConvInputs ==
    {f \in Files : f.kind \in {"doc", "docx", "odt"} /\ f.pages = 1}

InitC ==
    /\ c_mode \in {"sync", "async"}
    /\ c_src \in ConvInputs
    /\ c_ext \in {DOC, DOCX, ODT}
    /\ c_env \in SubprocessRuns(c_src)
    /\ c_clock = 0
    /\ c_w = "idle"
    /\ c_proc = "none"
    /\ c_proc_start = 0
    /\ c_tmp = <<>>
    /\ c_res = Pending
    /\ c_out = Pending

\* convert_to_pdf_via_lo ends with r: its caller has it at once when the call
\* is the synchronous one; the asynchronous caller gets it from wait_for.
Finish(r) ==
    /\ c_res' = r
    /\ c_w' = "done"
    /\ c_out' = IF c_mode = "sync" THEN r ELSE c_out

\* asyncio.to_thread(convert_to_pdf_via_lo, src_bytes, ext) under wait_for:
\* the job is handed to the default executor and the caller waits.
ToThread ==
    /\ c_mode = "async"
    /\ c_w = "idle"
    /\ c_w' = "queued"
    /\ UNCHANGED <<c_mode, c_src, c_ext, c_env, c_clock, c_proc, c_proc_start,
                   c_tmp, c_res, c_out>>
    /\ UNCHANGED OutsideC

\* with tempfile.TemporaryDirectory() as tmp: ... src_path.write_bytes(src_bytes)
ConvStart ==
    /\ \/ c_mode = "sync" /\ c_w = "idle"
       \/ c_mode = "async" /\ c_w = "queued"
    /\ c_w' = "spawn"
    /\ c_tmp' = <<[input_src |-> <<c_src>>, input_pdf |-> <<>>]>>
    /\ UNCHANGED <<c_mode, c_src, c_ext, c_env, c_clock, c_proc, c_proc_start,
                   c_res, c_out>>
    /\ UNCHANGED OutsideC

\* subprocess.run starts soffice; without the executable Popen raises
\* FileNotFoundError, the with block removes the directory and the except
\* clause raises FileNotFoundError again.
ConvSpawn ==
    /\ c_w = "spawn"
    /\ IF c_env.how = "missing"
       THEN /\ Finish(convert_to_pdf_via_lo(c_src, c_ext, c_env))
            /\ c_tmp' = <<>>
            /\ UNCHANGED <<c_proc, c_proc_start>>
       ELSE /\ c_w' = "wait"
            /\ c_proc' = "running"
            /\ c_proc_start' = c_clock
            /\ UNCHANGED <<c_tmp, c_res, c_out>>
    /\ UNCHANGED <<c_mode, c_src, c_ext, c_env, c_clock>>
    /\ UNCHANGED OutsideC

\* The soffice process ends by itself; exit 0 with a PDF leaves input.pdf in
\* the directory it was given, if that directory is still there.
SubprocessExits ==
    /\ c_proc = "running"
    /\ c_env.how \in {"nonzero", "no_pdf", "ok"}
    /\ c_proc' = "exited"
    /\ c_tmp' = IF c_env.how = "ok" /\ Has(c_tmp)
                THEN <<[Val(c_tmp) EXCEPT !.input_pdf = <<c_env.pdf>>]>>
                ELSE c_tmp
    /\ UNCHANGED <<c_mode, c_src, c_ext, c_env, c_clock, c_w, c_proc_start,
                   c_res, c_out>>
    /\ UNCHANGED OutsideC

\* subprocess.run returns or raises CalledProcessError (check=True); then the
\* test of pdf_path.exists(), the read, and the end of the with block.
ConvCollect ==
    /\ c_w = "wait"
    /\ c_proc = "exited"
    /\ LET files == Val(c_tmp)
           seen == IF c_env.how = "nonzero" THEN c_env
                   ELSE IF ~Has(files.input_pdf) THEN [c_env EXCEPT !.how = "no_pdf"]
                   ELSE [how |-> "ok", pdf |-> Val(files.input_pdf)]
       IN  Finish(convert_to_pdf_via_lo(c_src, c_ext, seen))
    /\ c_tmp' = <<>>
    /\ UNCHANGED <<c_mode, c_src, c_ext, c_env, c_clock, c_proc, c_proc_start>>
    /\ UNCHANGED OutsideC

\* subprocess.run's timeout: it kills the child, waits for it and raises
\* TimeoutExpired, which the except clause turns into RuntimeError.
ConvRunTimeout ==
    /\ c_w = "wait"
    /\ c_proc = "running"
    /\ RunTimedOut(c_clock, c_proc_start)
    /\ c_proc' = "killed"
    /\ Finish(convert_to_pdf_via_lo(c_src, c_ext, [c_env EXCEPT !.how = "timeout"]))
    /\ c_tmp' = <<>>
    /\ UNCHANGED <<c_mode, c_src, c_ext, c_env, c_clock, c_proc_start>>
    /\ UNCHANGED OutsideC

\* Cancelling the future of to_thread: a job still in the executor's queue is
\* dropped; a job that runs cannot be interrupted and runs on.
CancelJob(w) == IF w = "queued" THEN "cancelled" ELSE w

\* wait_for hands the thread's result, or its exception, to the caller.
WaitForReturns ==
    /\ c_mode = "async"
    /\ c_out = Pending
    /\ c_w = "done"
    /\ c_out' = c_res
    /\ UNCHANGED <<c_mode, c_src, c_ext, c_env, c_clock, c_w, c_proc,
                   c_proc_start, c_tmp, c_res>>
    /\ UNCHANGED OutsideC

\* wait_for's timeout: the future is cancelled and the caller gets TimeoutError.
WaitForTimeout ==
    /\ c_mode = "async"
    /\ c_out = Pending
    /\ c_w # "idle"
    /\ WaitForTimedOut(c_clock)
    /\ c_out' = convert_to_pdf_via_lo_async(c_src, c_ext, c_env, TRUE)
    /\ c_w' = CancelJob(c_w)
    /\ UNCHANGED <<c_mode, c_src, c_ext, c_env, c_clock, c_proc, c_proc_start,
                   c_tmp, c_res>>
    /\ UNCHANGED OutsideC

\* The task awaiting the conversion is cancelled (the request is dropped):
\* CancelledError is raised at the await and the future is cancelled.
CallerCancelled ==
    /\ c_mode = "async"
    /\ c_out = Pending
    /\ c_w # "idle"
    /\ c_out' = Failed("CancelledError", "", 0)
    /\ c_w' = CancelJob(c_w)
    /\ UNCHANGED <<c_mode, c_src, c_ext, c_env, c_clock, c_proc, c_proc_start,
                   c_tmp, c_res>>
    /\ UNCHANGED OutsideC

\* The call is waiting for something that takes time: a free worker of the
\* executor, or the soffice process.  The program's own statements take none.
ConvWaiting ==
    \/ c_w = "queued"
    \/ c_proc = "running"

\* Time passes, unless a timeout that is due has not been acted upon.
Tick ==
    /\ ConvWaiting
    /\ c_clock < MaxClock
    /\ ~(c_w = "wait" /\ c_proc = "running" /\ RunTimedOut(c_clock, c_proc_start))
    /\ ~(c_mode = "async" /\ c_out = Pending /\ c_w # "idle"
         /\ WaitForTimedOut(c_clock))
    /\ c_clock' = c_clock + ClockStep
    /\ UNCHANGED <<c_mode, c_src, c_ext, c_env, c_w, c_proc, c_proc_start,
                   c_tmp, c_res, c_out>>
    /\ UNCHANGED OutsideC

-----------------------------------------------------------------------------
(* utils/order_parser.py.  A text is a sequence of characters, each a       *)
(* one-character string; "nbsp" stands for U+00A0 and "times" for U+00D7.   *)

Uppers == <<"A", "B", "C", "D", "E", "F", "G", "H", "I", "J", "K", "L", "M",
            "N", "O", "P", "Q", "R", "S", "T", "U", "V", "W", "X", "Y", "Z">>

Lowers == <<"a", "b", "c", "d", "e", "f", "g", "h", "i", "j", "k", "l", "m",
            "n", "o", "p", "q", "r", "s", "t", "u", "v", "w", "x", "y", "z">>

\* Mutant of FoldCase: the patterns are compiled without re.I.
FoldCase_CaseSensitive(c) == c

\* re.I: the character as the pattern's lower-case letters see it.
FoldCase(c) ==
    IF \E i \in 1..Len(Uppers) : Uppers[i] = c
    THEN Lowers[CHOOSE i \in 1..Len(Uppers) : Uppers[i] = c]
    ELSE c

\* \s
IsSpace(c) == c \in {" ", "\n", "\t", "nbsp"}

Digits == <<"0", "1", "2", "3", "4", "5", "6", "7", "8", "9">>

IsDigit(c) == \E i \in 1..Len(Digits) : Digits[i] = c

DigitValue(c) == (CHOOSE i \in 1..Len(Digits) : Digits[i] = c) - 1

\* unicodedata.normalize("NFKC", text) on the characters tried: the
\* no-break space becomes a space, the multiplication sign stays.
Nfkc(text) == [i \in 1..Len(text) |-> IF text[i] = "nbsp" THEN " " ELSE text[i]]

\* text.replace("\u00A0", " ")
ReplaceNbsp(text) == [i \in 1..Len(text) |-> IF text[i] = "nbsp" THEN " " ELSE text[i]]

\* re.sub(r"\s+", " ", text)
RECURSIVE CollapseSpaces(_, _)
CollapseSpaces(text, after_space) ==
    IF text = <<>> THEN <<>>
    ELSE IF IsSpace(Head(text))
    THEN (IF after_space THEN <<>> ELSE <<" ">>) \o CollapseSpaces(Tail(text), TRUE)
    ELSE <<Head(text)>> \o CollapseSpaces(Tail(text), FALSE)

\* str.strip()
RECURSIVE Strip(_)
Strip(text) ==
    IF text = <<>> THEN <<>>
    ELSE IF IsSpace(Head(text)) THEN Strip(Tail(text))
    ELSE IF IsSpace(text[Len(text)]) THEN Strip(SubSeq(text, 1, Len(text) - 1))
    ELSE text

_normalize(text) == Strip(CollapseSpaces(ReplaceNbsp(Nfkc(text)), FALSE))

\* The literal pat (lower case) matches text at position i under re.I.
LiteralAt(text, i, pat) ==
    /\ i + Len(pat) - 1 <= Len(text)
    /\ \A k \in 1..Len(pat) : FoldCase(text[i + k - 1]) = pat[k]

\* re.search(pattern, text, re.I) for a pattern that is a plain word
SearchWord(text, pat) == \E i \in 1..Len(text) : LiteralAt(text, i, pat)

KW_IMPAGINAZIONE == <<"i", "m", "p", "a", "g", "i", "n", "a", "z", "i", "o", "n", "e">>

KW_FORMATO == <<"f", "o", "r", "m", "a", "t", "o">>

SERVICES_KEYWORDS ==
    [layout_service |-> KW_IMPAGINAZIONE]

\* services = {v: False ...}; for pattern, key in ...: if re.search(...): True
DetectServices(text_norm) ==
    [key \in DOMAIN SERVICES_KEYWORDS |-> SearchWord(text_norm, SERVICES_KEYWORDS[key])]

\* \s* from position i: the position after the spaces
RECURSIVE SkipSpaces(_, _)
SkipSpaces(text, i) ==
    IF i <= Len(text) /\ IsSpace(text[i]) THEN SkipSpaces(text, i + 1) ELSE i

\* [0-9]+ from position i: the position after the digits (i if there is none)
RECURSIVE SkipDigits(_, _)
SkipDigits(text, i) ==
    IF i <= Len(text) /\ IsDigit(text[i]) THEN SkipDigits(text, i + 1) ELSE i

\* ([0-9]+(?:[.,][0-9]+)?) at position i: <<>> without a digit there, else
\* the group's last position; the fraction is taken only when a digit follows
\* the point or the comma.
NumberAt(text, i) ==
    LET j == SkipDigits(text, i) IN
    IF j = i THEN <<>>
    ELSE IF /\ j + 1 <= Len(text)
            /\ text[j] \in {".", ","}
            /\ IsDigit(text[j + 1])
         THEN <<SkipDigits(text, j + 1) - 1>>
         ELSE <<j - 1>>

\* fmt_re at position i: <<>> if it does not match there, else the two groups.
FormatAt(text, i) ==
    IF ~LiteralAt(text, i, KW_FORMATO) THEN <<>>
    ELSE LET a == SkipSpaces(text, i + Len(KW_FORMATO))
             b == IF a <= Len(text) /\ text[a] = ":" THEN a + 1 ELSE a
             c == SkipSpaces(text, b)
             w == NumberAt(text, c)
         IN  IF ~Has(w) THEN <<>>
             ELSE LET d == SkipSpaces(text, Val(w) + 1) IN
                  IF ~(d <= Len(text) /\ FoldCase(text[d]) \in {"x", "times", "*"})
                  THEN <<>>
                  ELSE LET e == SkipSpaces(text, d + 1)
                           h == NumberAt(text, e)
                       IN  IF ~Has(h) THEN <<>>
                           ELSE <<[g1 |-> SubSeq(text, c, Val(w)),
                                   g2 |-> SubSeq(text, e, Val(h))]>>

\* fmt_re.search(text_norm): the leftmost match
SearchFormat(text) ==
    IF \E i \in 1..Len(text) : Has(FormatAt(text, i))
    THEN FormatAt(text, CHOOSE i \in 1..Len(text) :
                            /\ Has(FormatAt(text, i))
                            /\ \A k \in 1..(i - 1) : ~Has(FormatAt(text, k)))
    ELSE <<>>

\* The digits ds read as a decimal integer.
RECURSIVE DigitsValue(_)
DigitsValue(ds) ==
    IF ds = <<>> THEN 0
    ELSE 10 * DigitsValue(SubSeq(ds, 1, Len(ds) - 1)) + DigitValue(ds[Len(ds)])

\* float(group.replace(",", ".")) in hundredths; the texts tried have at most
\* two decimals, and further decimals are cut here.
ToFloat(group) ==
    LET g == [i \in 1..Len(group) |-> IF group[i] = "," THEN "." ELSE group[i]]
        p == IF \E i \in 1..Len(g) : g[i] = "."
             THEN CHOOSE i \in 1..Len(g) : g[i] = "." ELSE Len(g) + 1
        int == SubSeq(g, 1, p - 1)
        frac == SubSeq(g, p + 1, Len(g))
    IN  100 * DigitsValue(int)
        + (CASE Len(frac) = 0 -> 0
             [] Len(frac) = 1 -> 10 * DigitsValue(frac)
             [] OTHER -> DigitsValue(SubSeq(frac, 1, 2)))

\* parse_order as a whole
parse_order(text) ==
    LET text_norm == _normalize(text)
        services == DetectServices(text_norm)
        m == SearchFormat(text_norm)
    IN  IF ~Has(m) THEN Failed("ValueError", "Formato finale non trovato", 0)
        ELSE Returned([final_format_cm |-> <<ToFloat(Val(m).g1), ToFloat(Val(m).g2)>>,
                       services |-> services])

-----------------------------------------------------------------------------
(* Order texts, composed of a prefix, the label, the gap after it, the      *)
(* width, the separator, the height and a suffix.  keyword says whether the *)
(* piece holds the word impaginazione, ok whether the piece is one the      *)
(* format admits, value what the number is worth in hundredths.             *)

OrderPrefixes ==
    {[text |-> <<>>, keyword |-> FALSE],
     [text |-> <<"O", "r", "d", "i", "n", "e", " ", "1", "2", "\n">>, keyword |-> FALSE],
     [text |-> <<" ", "\t">>, keyword |-> FALSE],
     [text |-> <<"I", "m", "p", "a", "g", "i", "n", "a", "z", "i", "o", "n", "e", " ", "+", " ", "s", "t", "a", "m", "p", "a", "\n">>, keyword |-> TRUE]}

OrderSuffixes ==
    {[text |-> <<>>, keyword |-> FALSE],
     [text |-> <<"\n", "1", "x", " ", "S", "e", "r", "v", "i", "z", "i", "o", " ", "i", "m", "p", "a", "g", "i", "n", "a", "z", "i", "o", "n", "e", " ", "t", "e", "s", "t", "o">>, keyword |-> TRUE],
     [text |-> <<" ", "c", "m", "\n", "I", "M", "P", "A", "G", "I", "N", "A", "Z", "I", "O", "N", "E">>, keyword |-> TRUE],
     [text |-> <<"\n", "C", "o", "p", "e", "r", "t", "i", "n", "a", " ", "m", "o", "r", "b", "i", "d", "a", "\t", " ">>, keyword |-> FALSE]}

OrderLabels ==
    {[text |-> <<"F", "o", "r", "m", "a", "t", "o">>, ok |-> TRUE],
     [text |-> <<"f", "o", "r", "m", "a", "t", "o">>, ok |-> TRUE],
     [text |-> <<"F", "O", "R", "M", "A", "T", "O">>, ok |-> TRUE],
     [text |-> <<"F", "o", "r", "m", "a", "t">>, ok |-> FALSE],
     [text |-> <<>>, ok |-> FALSE]}

OrderGaps ==
    {<<":", " ">>,
     <<":">>,
     <<" ">>,
     <<" ", ":", "\n">>,
     <<":", "nbsp">>}

OrderWidths ==
    {[text |-> <<"1", "7">>, value |-> 1700],
     [text |-> <<"1", "7", ",", "5">>, value |-> 1750],
     [text |-> <<"1", "4", ".", "8", "5">>, value |-> 1485],
     [text |-> <<"0">>, value |-> 0]}

OrderHeights ==
    {[text |-> <<"2", "4">>, value |-> 2400],
     [text |-> <<"2", "9", ",", "7">>, value |-> 2970],
     [text |-> <<"2", "1", ".", "0", "0">>, value |-> 2100]}

OrderSeparators ==
    {[text |-> <<"x">>, ok |-> TRUE],
     [text |-> <<" ", "x", " ">>, ok |-> TRUE],
     [text |-> <<"X">>, ok |-> TRUE],
     [text |-> <<"times">>, ok |-> TRUE],
     [text |-> <<" ", "*", " ">>, ok |-> TRUE],
     [text |-> <<"-">>, ok |-> FALSE],
     [text |-> <<" ", "p", "e", "r", " ">>, ok |-> FALSE]}

OrderInputs ==
    [prefix : OrderPrefixes, label : OrderLabels, gap : OrderGaps,
     w : OrderWidths, sep : OrderSeparators, h : OrderHeights,
     suffix : OrderSuffixes]

\* The text of an order.
OrderText(o) ==
    o.prefix.text \o o.label.text \o o.gap \o o.w.text \o o.sep.text
    \o o.h.text \o o.suffix.text

\* The order text of tests/test_order_parser.py.
TestOrder ==
    [prefix |-> [text |-> <<>>, keyword |-> FALSE], label |-> [text |-> <<"F", "o", "r", "m", "a", "t", "o">>, ok |-> TRUE], gap |-> <<":", " ">>, w |-> [text |-> <<"1", "7">>, value |-> 1700], sep |-> [text |-> <<"x">>, ok |-> TRUE],
     h |-> [text |-> <<"2", "4">>, value |-> 2400], suffix |-> [text |-> <<"\n", "1", "x", " ", "S", "e", "r", "v", "i", "z", "i", "o", " ", "i", "m", "p", "a", "g", "i", "n", "a", "z", "i", "o", "n", "e", " ", "t", "e", "s", "t", "o">>, keyword |-> TRUE]]

-----------------------------------------------------------------------------
(* parse_order, step by step *)

OPending == [exc |-> "pending", detail |-> "", status |-> 0, ret |-> <<>>]

InitO ==
    /\ o_order \in OrderInputs
    /\ o_text = OrderText(o_order)
    /\ o_pc = "normalize"
    /\ o_norm = <<>>
    /\ o_services = EmptyMap
    /\ o_m = <<>>
    /\ o_out = OPending

\* text_norm = _normalize(text)
OrderNormalize ==
    /\ o_pc = "normalize"
    /\ o_norm' = _normalize(o_text)
    /\ o_pc' = "services"
    /\ UNCHANGED <<o_order, o_text, o_services, o_m, o_out>>
    /\ UNCHANGED OutsideO

\* services = {...}; the loop over SERVICES_KEYWORDS
OrderServices ==
    /\ o_pc = "services"
    /\ o_services' = DetectServices(o_norm)
    /\ o_pc' = "search"
    /\ UNCHANGED <<o_order, o_text, o_norm, o_m, o_out>>
    /\ UNCHANGED OutsideO

\* m = fmt_re.search(text_norm); if not m: raise ValueError(...)
OrderSearch ==
    /\ o_pc = "search"
    /\ LET m == SearchFormat(o_norm) IN
       /\ o_m' = m
       /\ IF Has(m)
          THEN /\ o_pc' = "return"
               /\ UNCHANGED o_out
          ELSE /\ o_pc' = "done"
               /\ o_out' = Failed("ValueError", "Formato finale non trovato", 0)
    /\ UNCHANGED <<o_order, o_text, o_norm, o_services>>
    /\ UNCHANGED OutsideO

\* w_cm = float(...); h_cm = float(...); return {...}
OrderReturn ==
    /\ o_pc = "return"
    /\ o_out' = Returned([final_format_cm |->
                              <<ToFloat(Val(o_m).g1), ToFloat(Val(o_m).g2)>>,
                          services |-> o_services])
    /\ o_pc' = "done"
    /\ UNCHANGED <<o_order, o_text, o_norm, o_services, o_m>>
    /\ UNCHANGED OutsideO

-----------------------------------------------------------------------------
(* api.py: the endpoints /validate (validate_document_file) and             *)
(* /validate-order (validate_with_order), statement by statement.  The call *)
(* of process_document runs the steps of server.process_document.           *)

\* file.filename.split(".")[-1]: a last component holds no dot.
ExtInputs == {f \in FormatInputs : \A i \in 1..Len(f) : f[i] # "."}

\* The order texts the endpoint is tried with: the test's, the same without
\* the service, and one without a format.
EndpointOrders ==
    {TestOrder,
     [TestOrder EXCEPT !.suffix = [text |-> <<>>, keyword |-> FALSE]],
     [TestOrder EXCEPT !.label = [text |-> <<>>, ok |-> FALSE]]}

NoResponse == [status |-> 0, detail |-> "pending"]

Response(status, detail) == [status |-> status, detail |-> detail]

\* /validate: `except HTTPException: raise`, then `except Exception` -> 500.
ValidateHandler(exc, status, detail) ==
    IF exc = "HTTPException" THEN Response(status, detail)
    ELSE Response(500, "Error validating document")

\* /validate-order: `except ValueError` -> 400, then `except Exception` -> 500;
\* HTTPException is an Exception and no ValueError.
OrderHandler(exc, status, detail) ==
    IF exc = "ValueError" THEN Response(400, detail)
    ELSE Response(500, "Errore interno")

\* What the endpoint answers when exc leaves its try block.
Handler(endpoint, exc, status, detail) ==
    IF endpoint = "validate" THEN ValidateHandler(exc, status, detail)
    ELSE OrderHandler(exc, status, detail)

InitE ==
    /\ e_endpoint \in {"validate", "validate_order"}
    /\ e_ext \in ExtInputs
    /\ e_file \in {f \in Files : f.pages >= 1 /\ f.layout.sized}
    /\ e_too_large \in (IF e_endpoint = "validate" THEN BOOLEAN ELSE {FALSE})
    /\ e_store \in (IF e_endpoint = "validate"
                    THEN {"found", "not_found", "error"} ELSE {"found"})
    /\ e_order \in (IF e_endpoint = "validate_order"
                    THEN EndpointOrders ELSE {TestOrder})
    /\ e_pc = "start"
    /\ e_kwargs = EmptyMap
    /\ e_services = Absent
    /\ e_resp = NoResponse

\* /validate: the read loop, with the size limit (413)
EpReadChunks ==
    /\ e_endpoint = "validate"
    /\ e_pc = "start"
    /\ IF e_too_large
       THEN /\ e_resp' = Handler(e_endpoint, "HTTPException", 413, "File too large")
            /\ e_pc' = "done"
       ELSE /\ e_pc' = "find_spec"
            /\ UNCHANGED e_resp
    /\ UNCHANGED <<e_endpoint, e_ext, e_file, e_too_large, e_store, e_order,
                   e_kwargs, e_services>>
    /\ UNCHANGED <<OutsideE, dVars>>

\* /validate: spec_data = await db.document_specs.find_one(...); 404 without
\* one; spec = DocumentSpec(**spec_data)
EpFindSpec ==
    /\ e_pc = "find_spec"
    /\ CASE e_store = "error" ->
                /\ e_resp' = Handler(e_endpoint, "PyMongoError", 0, "")
                /\ e_pc' = "done"
                /\ UNCHANGED e_kwargs
         [] e_store = "not_found" ->
                /\ e_resp' = Handler(e_endpoint, "HTTPException", 404,
                                     "Specification not found")
                /\ e_pc' = "done"
                /\ UNCHANGED e_kwargs
         [] e_store = "found" ->
                /\ e_kwargs' = BaseKwargs
                /\ e_pc' = "check_ext"
                /\ UNCHANGED e_resp
    /\ UNCHANGED <<e_endpoint, e_ext, e_file, e_too_large, e_store, e_order,
                   e_services>>
    /\ UNCHANGED <<OutsideE, dVars>>

\* /validate: file_extension = ....lower(); if file_extension not in
\* ['docx', 'odt', 'pdf']: raise HTTPException(400)
EpCheckExtension ==
    /\ e_pc = "check_ext"
    /\ IF Lower(e_ext) \notin {DOCX, ODT, PDF}
       THEN /\ e_resp' = Handler(e_endpoint, "HTTPException", 400,
                                 "Unsupported file format")
            /\ e_pc' = "done"
       ELSE /\ e_pc' = "process"
            /\ UNCHANGED e_resp
    /\ UNCHANGED <<e_endpoint, e_ext, e_file, e_too_large, e_store, e_order,
                   e_kwargs, e_services>>
    /\ UNCHANGED <<OutsideE, dVars>>

\* /validate-order: parsed = parse_order(order_text); the DocumentSpec built
\* from it, with min_page_count=40; file_bytes = await file.read()
EpParseOrder ==
    /\ e_endpoint = "validate_order"
    /\ e_pc = "start"
    /\ LET parsed == parse_order(OrderText(e_order)) IN
       IF parsed.exc # "none"
       THEN /\ e_resp' = Handler(e_endpoint, parsed.exc, parsed.status, parsed.detail)
            /\ e_pc' = "done"
            /\ UNCHANGED <<e_kwargs, e_services>>
       ELSE /\ e_kwargs' =
                  [f \in (SpecFields \ FlagFields) \cup {"min_page_count"} |->
                      CASE f = "page_width_cm"  -> Val(parsed.ret).final_format_cm[1]
                        [] f = "page_height_cm" -> Val(parsed.ret).final_format_cm[2]
                        [] f = "min_page_count" -> 40
                        [] OTHER                -> 0]
            /\ e_services' = <<Val(parsed.ret).services>>
            /\ e_pc' = "process"
            /\ UNCHANGED e_resp
    /\ UNCHANGED <<e_endpoint, e_ext, e_file, e_too_large, e_store, e_order>>
    /\ UNCHANGED <<OutsideE, dVars>>

\* process_document(file_content, file_extension) is called: /validate hands
\* over the lower-cased extension, /validate-order the extension as uploaded.
EpProcess ==
    /\ e_pc = "process"
    /\ e_pc' = "await"
    /\ d_impl' = "server"
    /\ d_file' = e_file
    /\ d_format' = IF e_endpoint = "validate" THEN Lower(e_ext) ELSE e_ext
    /\ d_pc' = "start"
    /\ d_props' = <<>>
    /\ d_pdf' = <<>>
    /\ d_calls' = <<>>
    /\ d_out' = DRunning
    /\ UNCHANGED <<e_endpoint, e_ext, e_file, e_too_large, e_store, e_order,
                   e_kwargs, e_services, e_resp>>
    /\ UNCHANGED OutsideE

\* doc_props = await process_document(...): an exception of the call goes to
\* the handler; the dict the call returns is no awaitable, so `await` raises
\* TypeError and validate_document is never reached.
EpAwait ==
    /\ e_pc = "await"
    /\ d_out.kind # "running"
    /\ e_resp' = IF d_out.kind = "raise"
                 THEN Handler(e_endpoint, d_out.exc, d_out.status, d_out.detail)
                 ELSE Handler(e_endpoint, "TypeError", 0,
                              "object dict can't be used in 'await' expression")
    /\ e_pc' = "done"
    /\ UNCHANGED <<e_endpoint, e_ext, e_file, e_too_large, e_store, e_order,
                   e_kwargs, e_services>>
    /\ UNCHANGED <<OutsideE, dVars>>

-----------------------------------------------------------------------------
(* services/extract/pdf.py and docx.py: the scan of the page sizes (PDF      *)
(* pages, DOCX sections), statement by statement.  A document is seen here   *)
(* as the sequence of its page (section) sizes, in hundredths of a cm.       *)

MaxScanPages == 3

_TOL_INCONSISTENT_CM == 10

ScanSizes ==
    {[width_cm |-> 2100, height_cm |-> 2970],
     [width_cm |-> 2100, height_cm |-> 1480],
     [width_cm |-> 2110, height_cm |-> 2970],
     [width_cm |-> 2111, height_cm |-> 2970],
     [width_cm |-> 2100, height_cm |-> 2959],
     [width_cm |-> 2090, height_cm |-> 2980]}

ScanInputs == SeqsUpTo(ScanSizes, MaxScanPages)

\* Mutant of Deviates: the height is not compared.
Deviates_WidthOnly(box, ref_w, ref_h) ==
    Abs(box.width_cm - ref_w) > _TOL_INCONSISTENT_CM

\* abs(pb["width_cm"] - ref_w) > 0.1 or abs(pb["height_cm"] - ref_h) > 0.1
Deviates(box, ref_w, ref_h) ==
    \/ Abs(box.width_cm - ref_w) > _TOL_INCONSISTENT_CM
    \/ Abs(box.height_cm - ref_h) > _TOL_INCONSISTENT_CM

\* f"{x:.1f}": x rounded to one decimal, in tenths
OneDecimal(x) == (x + 5) \div 10

\* What is appended for a deviating page: the page's box itself (PDF), or the
\* section number with the formatted size (DOCX).  index is the key "page"
\* or "section".
InconsistentEntry(impl, box) ==
    IF impl = "pdf"
    THEN [index |-> box.index, width_cm |-> box.width_cm, height_cm |-> box.height_cm]
    ELSE [index |-> box.index, width_cm |-> OneDecimal(box.width_cm),
          height_cm |-> OneDecimal(box.height_cm)]

SPending == [exc |-> "pending", detail |-> "", status |-> 0, ret |-> <<>>]

InitS ==
    /\ s_impl \in {"pdf", "docx"}
    /\ s_pages \in ScanInputs
    /\ s_pc = "open"
    /\ s_boxes = <<>>
    /\ s_ref = <<>>
    /\ s_i = 0
    /\ s_inconsistent = <<>>
    /\ s_out = SPending

\* pdf.py: reader = PdfReader(...); if not reader.pages: raise HTTPException(400)
\* docx.py: doc = Document(...)
ScanOpen ==
    /\ s_pc = "open"
    /\ IF s_impl = "pdf" /\ s_pages = <<>>
       THEN /\ s_out' = Failed("HTTPException", "PDF file has no pages", 400)
            /\ s_pc' = "done"
       ELSE /\ s_pc' = "boxes"
            /\ UNCHANGED s_out
    /\ UNCHANGED <<s_impl, s_pages, s_boxes, s_ref, s_i, s_inconsistent>>
    /\ UNCHANGED OutsideS

\* One iteration of the first loop: the box of page idx, numbered idx + 1
\* (or, past the last page, the end of the loop)
ScanBox ==
    /\ s_pc = "boxes"
    /\ IF Len(s_boxes) < Len(s_pages)
       THEN LET n == Len(s_boxes) + 1 IN
            /\ s_boxes' = Append(s_boxes, [index |-> n,
                                           width_cm |-> s_pages[n].width_cm,
                                           height_cm |-> s_pages[n].height_cm])
            /\ UNCHANGED s_pc
       ELSE /\ s_pc' = "ref"
            /\ UNCHANGED s_boxes
    /\ UNCHANGED <<s_impl, s_pages, s_ref, s_i, s_inconsistent, s_out>>
    /\ UNCHANGED OutsideS

\* ref_w, ref_h = page_boxes[0][...]  (docx.py: first = section_data[0], an
\* IndexError for a document without sections)
ScanRef ==
    /\ s_pc = "ref"
    /\ IF s_boxes = <<>>
       THEN /\ s_out' = Failed("IndexError", "list index out of range", 0)
            /\ s_pc' = "done"
            /\ UNCHANGED <<s_ref, s_i>>
       ELSE /\ s_ref' = <<[width_cm |-> s_boxes[1].width_cm,
                           height_cm |-> s_boxes[1].height_cm]>>
            /\ s_i' = 2
            /\ s_pc' = "compare"
            /\ UNCHANGED s_out
    /\ UNCHANGED <<s_impl, s_pages, s_boxes, s_inconsistent>>
    /\ UNCHANGED OutsideS

\* One iteration of `for pb in page_boxes[1:]`
ScanCompare ==
    /\ s_pc = "compare"
    /\ s_i <= Len(s_boxes)
    /\ s_inconsistent' =
          IF Deviates(s_boxes[s_i], Val(s_ref).width_cm, Val(s_ref).height_cm)
          THEN Append(s_inconsistent, InconsistentEntry(s_impl, s_boxes[s_i]))
          ELSE s_inconsistent
    /\ s_i' = s_i + 1
    /\ UNCHANGED <<s_impl, s_pages, s_pc, s_boxes, s_ref, s_out>>
    /\ UNCHANGED OutsideS

\* return {..., "inconsistent_pages": inconsistent_pages,
\*         "has_size_inconsistencies": bool(inconsistent_pages)}
ScanReturn ==
    /\ s_pc = "compare"
    /\ s_i > Len(s_boxes)
    /\ s_out' = Returned([page_size |-> Val(s_ref),
                          inconsistent |-> s_inconsistent,
                          has_size_inconsistencies |-> s_inconsistent # <<>>])
    /\ s_pc' = "done"
    /\ UNCHANGED <<s_impl, s_pages, s_boxes, s_ref, s_i, s_inconsistent>>
    /\ UNCHANGED OutsideS

-----------------------------------------------------------------------------
(* services/extract and services/validation in a row: the record that       *)
(* process_document returns is handed to core.validate_document.            *)

InitPipeline ==
    /\ InitD
    /\ d_impl = "base"

\* validate_document(doc_props, spec, services) is called with the record
\* returned, for some spec and some services map.
ValidateExtracted ==
    /\ d_out.kind = "return"
    /\ v_out = Raised("idle", 0)
    /\ \E kwargs \in CopiesKwargs, services \in ServicesInputs :
        /\ v_kwargs' = kwargs
        /\ v_spec' = DocumentSpec(kwargs)
        /\ v_services' = services
    /\ v_engine' = "core"
    /\ v_doc' = Val(d_out.props)
    /\ v_pc' = 0
    /\ v_validations' = EmptyMap
    /\ v_out' = Running
    /\ UNCHANGED dVars
    /\ UNCHANGED OutsideVD

-----------------------------------------------------------------------------
(* services/extract/pdf.py: extract_pdf_properties, the loop over the pages *)
(* (TOC keywords, page numbers), statement by statement.  A page is its     *)
(* text, of which only whether it holds a TOC keyword matters, and its      *)
(* words in text-flow order; a word is the number it spells (0: not a digit *)
(* string), its bottom edge and its horizontal centre, in points.           *)

\* pdf.pages[0].width and height of the PDFs tried
PageWidthPt == 100

PageHeightPt == 200

bottom_th == 56

MaxPdfPages == 2

MaxWords == 2

Words ==
    {[num |-> 0, bottom |-> 190, cx |-> 50]}
    \cup {[num |-> n, bottom |-> 190, cx |-> c] :
            n \in 1..MaxPdfPages, c \in {10, 30, 50, 90}}
    \cup {[num |-> n, bottom |-> PageHeightPt - bottom_th - 1, cx |-> 50] :
            n \in 1..MaxPdfPages}

\* The words that follow the first word of a page: a number in the middle of
\* the footer, or no number.
LaterWords == {w \in Words : w.cx = 50 /\ w.bottom = 190}

\* The words of a page: any first word, then later words.
WordLists ==
    {<<>>} \cup {<<w>> \o rest : w \in Words,
                                 rest \in SeqsUpTo(LaterWords, MaxWords - 1)}

PdfPages == [toc_keyword : BOOLEAN, words : WordLists]

\* One page in full, or a short first page and a second page in full.
PdfInputs ==
    {<<>>}
    \cup {<<p>> : p \in PdfPages}
    \cup {<<p, q>> : p \in {x \in PdfPages : Len(x.words) <= 1},
                     q \in {x \in PdfPages : ~x.toc_keyword}}

\* w["text"].strip().isdigit() and int(w["text"]) == idx + 1  (idx counts from 0)
IsPageNumber(word, idx) == word.num # 0 /\ word.num = idx + 1

\* w["bottom"] < h_pt - bottom_th
AboveFooter(word, h_pt) == word.bottom < h_pt - bottom_th

\* The if/elif chain over cx: the zone, or pos as it was.
Zone(cx, w_pt, pos) ==
    IF 100 * Abs(2 * cx - w_pt) <= 2 * 15 * w_pt THEN "center"
    ELSE IF 100 * cx < 25 * w_pt THEN "left"
    ELSE IF 100 * cx > 75 * w_pt THEN "right"
    ELSE pos

\* Mutant of AppendPosition: a page without a number gets no entry.
AppendPosition_OnlyFound(positions, pos) ==
    IF pos = "missing" THEN positions ELSE Append(positions, pos)

\* page_num_positions.append(pos)
AppendPosition(positions, pos) == Append(positions, pos)

PPending == [exc |-> "pending", detail |-> "", status |-> 0, ret |-> <<>>]

InitP ==
    /\ p_pdf \in PdfInputs
    /\ p_outline \in {0, 1}
    /\ p_pc = "open"
    /\ p_idx = 0
    /\ p_w = 1
    /\ p_pos = "missing"
    /\ p_headings = <<>>
    /\ p_positions = <<>>
    /\ p_toc = <<>>
    /\ p_out = PPending

\* reader = PyPDF2.PdfReader(pdf_io); if not reader.pages: raise 400; the page
\* sizes and margins; pdfplumber.open(pdf_io)
PdfOpen ==
    /\ p_pc = "open"
    /\ IF p_pdf = <<>>
       THEN /\ p_out' = Failed("HTTPException", "PDF file has no pages", 400)
            /\ p_pc' = "done"
       ELSE /\ p_pc' = "page"
            /\ UNCHANGED p_out
    /\ UNCHANGED <<p_pdf, p_outline, p_idx, p_w, p_pos, p_headings, p_positions,
                   p_toc>>
    /\ UNCHANGED OutsideP

\* One page: txt, the keyword test, pos = "missing", the words are extracted.
PageText ==
    /\ p_pc = "page"
    /\ p_idx < Len(p_pdf)
    /\ p_headings' = IF p_pdf[p_idx + 1].toc_keyword
                     THEN Append(p_headings, "TOC detected") ELSE p_headings
    /\ p_pos' = "missing"
    /\ p_w' = 1
    /\ p_pc' = "words"
    /\ UNCHANGED <<p_pdf, p_outline, p_idx, p_positions, p_toc, p_out>>
    /\ UNCHANGED OutsideP

\* One word of the inner loop: not this page's number, or above the footer:
\* next word; else the zone test, and break.
WordStep ==
    /\ p_pc = "words"
    /\ p_w <= Len(p_pdf[p_idx + 1].words)
    /\ LET word == p_pdf[p_idx + 1].words[p_w] IN
       IF IsPageNumber(word, p_idx) /\ ~AboveFooter(word, PageHeightPt)
       THEN /\ p_pos' = Zone(word.cx, PageWidthPt, p_pos)
            /\ p_pc' = "append"
            /\ UNCHANGED p_w
       ELSE /\ p_w' = p_w + 1
            /\ UNCHANGED <<p_pos, p_pc>>
    /\ UNCHANGED <<p_pdf, p_outline, p_idx, p_headings, p_positions, p_toc, p_out>>
    /\ UNCHANGED OutsideP

\* The words of the page are exhausted.
WordsEnd ==
    /\ p_pc = "words"
    /\ p_w > Len(p_pdf[p_idx + 1].words)
    /\ p_pc' = "append"
    /\ UNCHANGED <<p_pdf, p_outline, p_idx, p_w, p_pos, p_headings, p_positions,
                   p_toc, p_out>>
    /\ UNCHANGED OutsideP

\* page_num_positions.append(pos), and the next page
PageAppend ==
    /\ p_pc = "append"
    /\ p_positions' = AppendPosition(p_positions, p_pos)
    /\ p_idx' = p_idx + 1
    /\ p_pc' = IF p_idx + 1 < Len(p_pdf) THEN "page" ELSE "analysis"
    /\ UNCHANGED <<p_pdf, p_outline, p_w, p_pos, p_headings, p_toc, p_out>>
    /\ UNCHANGED OutsideP

\* A page has text when it holds a keyword or a word.
HasText(page) == page.toc_keyword \/ page.words # <<>>

\* extract_pdf_detailed_analysis: the loop over the pages raises
\* AttributeError at the first text span (fi.size_counts, UpdateFont);
\* otherwise toc = pdf_doc.get_toc(), one toc_structure entry per outline
\* entry.
PdfOutline ==
    /\ p_pc = "analysis"
    /\ IF \E i \in 1..Len(p_pdf) : HasText(p_pdf[i])
       THEN /\ p_out' = Failed("AttributeError", "size_counts", 0)
            /\ p_pc' = "done"
            /\ UNCHANGED p_toc
       ELSE /\ p_toc' = [i \in 1..p_outline |-> "entry"]
            /\ p_pc' = "return"
            /\ UNCHANGED p_out
    /\ UNCHANGED <<p_pdf, p_outline, p_idx, p_w, p_pos, p_headings, p_positions>>
    /\ UNCHANGED OutsideP

\* The dict returned
PdfReturn ==
    /\ p_pc = "return"
    /\ p_out' = Returned([has_toc |-> p_headings # <<>>,
                          headings |-> p_headings,
                          toc_structure |-> p_toc,
                          page_count |-> Len(p_pdf),
                          page_num_positions |-> p_positions])
    /\ p_pc' = "done"
    /\ UNCHANGED <<p_pdf, p_outline, p_idx, p_w, p_pos, p_headings, p_positions,
                   p_toc>>
    /\ UNCHANGED OutsideP

-----------------------------------------------------------------------------
(* The detailed analysis: fonts, images and colour                            *)
(* services/extract/pdf.py extract_pdf_detailed_analysis,                     *)
(* services/extract/docx.py extract_docx_detailed_analysis                    *)

MaxUnits == 2
MaxSpans == 2

\* models.FontInfo: the fields the class declares. A pydantic model keeps the
\* keyword arguments that name a declared field and ignores the others.
FontInfoFields == {"sizes", "count"}

FontInfo(kwargs) == [f \in FontInfoFields |-> kwargs[f]]

\* A text span of a PDF page, a run of a DOCX paragraph: the font's name, the
\* size rounded to one decimal (here whole points), the colour (0 is black).
Spans ==
    { [font |-> "Arial", size |-> 10, color |-> 0],
      [font |-> "Arial", size |-> 12, color |-> 255],
      [font |-> "Times", size |-> 10, color |-> 0] }

SpanLists == UNION { [1..n -> Spans] : n \in 0..MaxSpans }

\* A PDF page: its images (TRUE: extract_image gives the image, FALSE: it
\* gives nothing or raises), whether its rendering has a pixel whose three
\* channels differ, its spans.
PageColours ==
    {[images |-> <<>>, pixels |-> FALSE],
     [images |-> <<>>, pixels |-> TRUE],
     [images |-> <<FALSE>>, pixels |-> FALSE],
     [images |-> <<TRUE, TRUE>>, pixels |-> FALSE]}

AnalysisPages ==
    {[images |-> c.images, pixels |-> c.pixels, spans |-> sp] :
        c \in PageColours, sp \in SpanLists}

\* A DOCX paragraph: its runs.
AnalysisParagraphs ==
    [images : {<<>>}, pixels : {FALSE}, spans : SpanLists]

\* The documents analysed: the first page or paragraph is any, the later
\* ones have one span at most.
AnalysisDocs(units) ==
    {<<>>}
    \cup {<<u>> \o rest :
            u \in units,
            rest \in SeqsUpTo({x \in units : Len(x.spans) <= 1}, MaxUnits - 1)}

\* dict.setdefault(key, default)
SetDefault(d, key, default) ==
    IF key \in DOMAIN d THEN d ELSE d @@ (key :> default)

\* fi.size_counts[size] = fi.size_counts.get(size, 0) + 1
Bump(size_counts, size) ==
    IF size \in DOMAIN size_counts
    THEN [size_counts EXCEPT ![size] = @ + 1]
    ELSE size_counts @@ (size :> 1)

\* fi.count += 1; if font_size not in fi.sizes: fi.sizes.append(font_size)
CountSpan(fi, size) ==
    [fi EXCEPT !.count = @ + 1,
               !.sizes = IF \E k \in 1..Len(@) : @[k] = size THEN @
                         ELSE Append(@, size)]

\* The update of the fonts dict for one span or run. fonts.setdefault puts
\* the new FontInfo in the dict; count and sizes are updated; reading
\* fi.size_counts raises AttributeError when the object has no such attribute.
UpdateFont(fonts, name, size) ==
    LET fs == SetDefault(fonts, name,
                  FontInfo([sizes |-> <<>>, count |-> 0, size_counts |-> <<>>]))
        fi == CountSpan(fs[name], size)
    IN  IF HasAttr(fi, "size_counts")
        THEN [raised |-> FALSE,
              fonts |-> [fs EXCEPT ![name] =
                            [fi EXCEPT !.size_counts = Bump(@, size)]]]
        ELSE [raised |-> TRUE, fonts |-> [fs EXCEPT ![name] = fi]]

\* has_color_pages=bool(color_pages)
HasColorPages_Never(color_pages) == FALSE

HasColorPages(color_pages) == color_pages # {}

APending == [exc |-> "pending", detail |-> "", status |-> 0, ret |-> <<>>]

InitA ==
    /\ a_impl \in {"pdf", "docx"}
    /\ a_units \in IF a_impl = "pdf" THEN AnalysisDocs(AnalysisPages)
                   ELSE AnalysisDocs(AnalysisParagraphs)
    /\ a_rels \in IF a_impl = "pdf" THEN {0} ELSE {0, 1}
    /\ a_pc = "unit"
    /\ a_i = 0
    /\ a_s = 1
    /\ a_page_is_color = FALSE
    /\ a_color_pages = {}
    /\ a_has_color_text = FALSE
    /\ a_colored = 0
    /\ a_image_count = 0
    /\ a_fonts = <<>>
    /\ a_out = APending

\* PDF, one page: page_is_color = False, the loop over the page's images.
PdfPageImages ==
    /\ a_impl = "pdf"
    /\ a_pc = "unit"
    /\ a_i < Len(a_units)
    /\ LET imgs == a_units[a_i + 1].images
           n == Cardinality({k \in 1..Len(imgs) : imgs[k]})
       IN  /\ a_image_count' = a_image_count + n
           /\ a_page_is_color' = (n > 0)
           /\ a_pc' = IF n > 0 THEN "spans" ELSE "pixels"
    /\ a_s' = 1
    /\ UNCHANGED <<a_impl, a_units, a_rels, a_i, a_color_pages,
                   a_has_color_text, a_colored, a_fonts, a_out>>
    /\ UNCHANGED OutsideA

\* PDF: if not page_is_color: the rendering is searched for a pixel whose
\* channels differ.
PdfPagePixels ==
    /\ a_pc = "pixels"
    /\ a_page_is_color' = a_units[a_i + 1].pixels
    /\ a_pc' = "spans"
    /\ UNCHANGED <<a_impl, a_units, a_rels, a_i, a_s, a_color_pages,
                   a_has_color_text, a_colored, a_image_count, a_fonts, a_out>>
    /\ UNCHANGED OutsideA

\* PDF, one span: the fonts dict, then the colour of the span.
PdfSpan ==
    /\ a_impl = "pdf"
    /\ a_pc = "spans"
    /\ a_s <= Len(a_units[a_i + 1].spans)
    /\ LET s == a_units[a_i + 1].spans[a_s]
           u == UpdateFont(a_fonts, s.font, s.size)
       IN  /\ a_fonts' = u.fonts
           /\ IF u.raised
              THEN /\ a_out' = Failed("AttributeError", "size_counts", 0)
                   /\ a_pc' = "done"
                   /\ UNCHANGED <<a_s, a_has_color_text, a_page_is_color>>
              ELSE /\ a_has_color_text' = (a_has_color_text \/ s.color # 0)
                   /\ a_page_is_color' = (a_page_is_color \/ s.color # 0)
                   /\ a_s' = a_s + 1
                   /\ UNCHANGED <<a_pc, a_out>>
    /\ UNCHANGED <<a_impl, a_units, a_rels, a_i, a_color_pages, a_colored,
                   a_image_count>>
    /\ UNCHANGED OutsideA

\* PDF, the end of a page: if page_is_color: color_pages.add(page_num)
PdfPageEnd ==
    /\ a_impl = "pdf"
    /\ a_pc = "spans"
    /\ a_s > Len(a_units[a_i + 1].spans)
    /\ a_color_pages' = IF a_page_is_color THEN a_color_pages \cup {a_i}
                        ELSE a_color_pages
    /\ a_i' = a_i + 1
    /\ a_pc' = "unit"
    /\ UNCHANGED <<a_impl, a_units, a_rels, a_s, a_page_is_color,
                   a_has_color_text, a_colored, a_image_count, a_fonts, a_out>>
    /\ UNCHANGED OutsideA

\* PDF, after the pages: the DetailedDocumentAnalysis returned.
PdfAnalysisReturn ==
    /\ a_impl = "pdf"
    /\ a_pc = "unit"
    /\ a_i = Len(a_units)
    /\ a_out' = Returned([fonts |-> a_fonts,
                          image_count |-> a_image_count,
                          has_color_pages |-> HasColorPages(a_color_pages),
                          has_color_text |-> a_has_color_text,
                          colored_elements_count |-> Cardinality(a_color_pages)])
    /\ a_pc' = "done"
    /\ UNCHANGED <<a_impl, a_units, a_rels, a_i, a_s, a_page_is_color,
                   a_color_pages, a_has_color_text, a_colored, a_image_count,
                   a_fonts>>
    /\ UNCHANGED OutsideA

\* DOCX, one paragraph: paragraph_count, line spacing, heading.
DocxParagraph ==
    /\ a_impl = "docx"
    /\ a_pc = "unit"
    /\ a_i < Len(a_units)
    /\ a_s' = 1
    /\ a_pc' = "spans"
    /\ UNCHANGED <<a_impl, a_units, a_rels, a_i, a_page_is_color, a_color_pages,
                   a_has_color_text, a_colored, a_image_count, a_fonts, a_out>>
    /\ UNCHANGED OutsideA

\* DOCX, one run: the colour of the run, then the fonts dict.
DocxRun ==
    /\ a_impl = "docx"
    /\ a_pc = "spans"
    /\ a_s <= Len(a_units[a_i + 1].spans)
    /\ LET s == a_units[a_i + 1].spans[a_s]
           u == UpdateFont(a_fonts, s.font, s.size)
       IN  /\ a_has_color_text' = (a_has_color_text \/ s.color # 0)
           /\ a_colored' = IF s.color # 0 THEN a_colored + 1 ELSE a_colored
           /\ a_fonts' = u.fonts
           /\ IF u.raised
              THEN /\ a_out' = Failed("AttributeError", "size_counts", 0)
                   /\ a_pc' = "done"
                   /\ UNCHANGED a_s
              ELSE /\ a_s' = a_s + 1
                   /\ UNCHANGED <<a_pc, a_out>>
    /\ UNCHANGED <<a_impl, a_units, a_rels, a_i, a_page_is_color, a_color_pages,
                   a_image_count>>
    /\ UNCHANGED OutsideA

\* DOCX, the end of a paragraph's runs.
DocxParagraphEnd ==
    /\ a_impl = "docx"
    /\ a_pc = "spans"
    /\ a_s > Len(a_units[a_i + 1].spans)
    /\ a_i' = a_i + 1
    /\ a_pc' = "unit"
    /\ UNCHANGED <<a_impl, a_units, a_rels, a_s, a_page_is_color, a_color_pages,
                   a_has_color_text, a_colored, a_image_count, a_fonts, a_out>>
    /\ UNCHANGED OutsideA

\* DOCX, after the paragraphs: the loop over the part's relationships, and
\* the DetailedDocumentAnalysis returned.
DocxAnalysisReturn ==
    /\ a_impl = "docx"
    /\ a_pc = "unit"
    /\ a_i = Len(a_units)
    /\ a_image_count' = a_rels
    /\ a_colored' = a_colored + a_rels
    /\ a_out' = Returned([fonts |-> a_fonts,
                          image_count |-> a_rels,
                          has_color_pages |-> (a_rels > 0),
                          has_color_text |-> a_has_color_text,
                          colored_elements_count |-> a_colored + a_rels])
    /\ a_pc' = "done"
    /\ UNCHANGED <<a_impl, a_units, a_rels, a_i, a_s, a_page_is_color,
                   a_color_pages, a_has_color_text, a_fonts>>
    /\ UNCHANGED OutsideA

-----------------------------------------------------------------------------
(* api.py: where the specifications of the rule engine come from:            *)
(* POST /specs (create_spec) stores one, /validate reads it back;            *)
(* /validate-order builds one from the order text.                           *)

LengthFields == SpecFields \ FlagFields

\* The bodies POST /specs is tried with: every sign of every size and margin
\* (hundredths of a cm), and a body without page_width_cm.
CreateBodies ==
    {[f \in LengthFields |->
         CASE f = "page_width_cm"  -> w
           [] f = "page_height_cm" -> h
           [] OTHER                -> m[f]] :
        w \in {1700, -1700}, h \in {2400, -2400},
        m \in [LengthFields \ {"page_width_cm", "page_height_cm"} -> {0, -100}]}
    \cup {[f \in LengthFields \ {"page_width_cm"} |->
              IF f = "page_height_cm" THEN 2400 ELSE 0]}

\* The order texts /validate-order is tried with: the test's, one of width 0,
\* and two with a minus sign before a number.
SignedOrders ==
    {TestOrder,
     [TestOrder EXCEPT !.w = [text |-> <<"0">>, value |-> 0]],
     [TestOrder EXCEPT !.gap = <<":", " ", "-">>],
     [TestOrder EXCEPT !.sep = [text |-> <<"x", "-">>, ok |-> FALSE]]}

\* models.DocumentSpecCreate as FastAPI builds it from the body: a required
\* field that is missing is answered 422; the flags default to False; no
\* field has a validator or a bound.
DocumentSpecCreate(body) ==
    IF \E f \in LengthFields : f \notin DOMAIN body
    THEN Failed("RequestValidationError", "Field required", 422)
    ELSE Returned([f \in SpecFields |->
                      IF f \in DOMAIN body THEN body[f] ELSE FALSE])

InitB ==
    /\ b_source \in {"create", "order"}
    /\ b_body \in IF b_source = "create" THEN CreateBodies ELSE {EmptyMap}
    /\ b_order \in IF b_source = "order" THEN SignedOrders ELSE {TestOrder}
    /\ b_insert_fails \in IF b_source = "create" THEN BOOLEAN ELSE {FALSE}
    /\ b_pc = "request"
    /\ b_db = {}
    /\ b_spec = Absent
    /\ b_resp = NoResponse

\* POST /specs: spec_dict = spec.model_dump(); spec_obj = DocumentSpec(
\* **spec_dict); await db.document_specs.insert_one(...); return spec_obj
create_spec ==
    /\ b_source = "create"
    /\ b_pc = "request"
    /\ LET spec == DocumentSpecCreate(b_body) IN
       IF spec.exc # "none"
       THEN /\ b_resp' = Response(spec.status, spec.detail)
            /\ b_pc' = "done"
            /\ UNCHANGED b_db
       ELSE IF b_insert_fails
       THEN /\ b_resp' = Response(500, "Error creating specification")
            /\ b_pc' = "done"
            /\ UNCHANGED b_db
       ELSE /\ b_db' = b_db \cup {DocumentSpec(Val(spec.ret))}
            /\ b_resp' = Response(201, "")
            /\ b_pc' = "stored"
    /\ UNCHANGED <<b_source, b_body, b_order, b_insert_fails, b_spec>>
    /\ UNCHANGED OutsideB

\* /validate: spec_data = await db.document_specs.find_one({"id": spec_id});
\* spec = DocumentSpec(**spec_data); ... validate_document(doc_props, spec)
FindSpec ==
    /\ b_pc = "stored"
    /\ \E spec_data \in b_db : b_spec' = <<DocumentSpec(spec_data)>>
    /\ b_pc' = "done"
    /\ UNCHANGED <<b_source, b_body, b_order, b_insert_fails, b_db, b_resp>>
    /\ UNCHANGED OutsideB

\* /validate-order: parsed = parse_order(order_text); spec = DocumentSpec(
\* ..., page_width_cm=width_cm, page_height_cm=height_cm, the margins 0,
\* min_page_count=40)
OrderSpec ==
    /\ b_source = "order"
    /\ b_pc = "request"
    /\ LET parsed == parse_order(OrderText(b_order)) IN
       IF parsed.exc # "none"
       THEN /\ b_resp' = OrderHandler(parsed.exc, parsed.status, parsed.detail)
            /\ UNCHANGED b_spec
       ELSE /\ b_spec' = <<DocumentSpec(
                  [f \in LengthFields \cup {"min_page_count"} |->
                      CASE f = "page_width_cm"  -> Val(parsed.ret).final_format_cm[1]
                        [] f = "page_height_cm" -> Val(parsed.ret).final_format_cm[2]
                        [] f = "min_page_count" -> 40
                        [] OTHER                -> 0])>>
            /\ UNCHANGED b_resp
    /\ b_pc' = "done"
    /\ UNCHANGED <<b_source, b_body, b_order, b_insert_fails, b_db>>
    /\ UNCHANGED OutsideB

-----------------------------------------------------------------------------
(* utils/local_store.py: save_result and get_entry, called from several     *)
(* threads, statement by statement.  A ValidationResult is its id and the   *)
(* call that made it; the DocumentSpec saved with it is marked with the     *)
(* same call.                                                               *)

MaxThreads == 3

Threads == 1..MaxThreads

ResultIds == {"a", "b"}

\* The call of thread t: get_entry(id), or save_result(result, spec) with the
\* result and the spec of validation t.
StoreCalls(t) ==
    {[fn |-> "get_entry", id |-> id] : id \in ResultIds}
    \cup {[fn |-> "save_result", id |-> id] : id \in ResultIds}

\* {"result": result, "spec": spec}
Entry(result, spec) == [result |-> result, spec |-> spec]

\* Mutant of LockFree: the lock is never seen as held.
LockFree_Always(lock) == TRUE

\* _lock can be acquired
LockFree(lock) == lock = 0

InitL ==
    /\ l_op \in {f \in [Threads -> UNION {StoreCalls(t) : t \in Threads}] :
                    \A t \in Threads : f[t] \in StoreCalls(t)}
    /\ l_pc = [t \in Threads |-> "start"]
    /\ l_lock = 0
    /\ l_storage = [id \in ResultIds |-> Absent]
    /\ l_ret = [t \in Threads |-> Absent]
    /\ l_saved = <<>>

\* with _lock: the thread acquires the lock, or waits.
StoreAcquire(t) ==
    /\ l_pc[t] = "start"
    /\ LockFree(l_lock)
    /\ l_lock' = t
    /\ l_pc' = [l_pc EXCEPT ![t] = "locked"]
    /\ UNCHANGED <<l_op, l_storage, l_ret, l_saved>>
    /\ UNCHANGED OutsideL

\* save_result: _storage[result.id] = {"result": result, "spec": spec}
StoreWrite(t) ==
    /\ l_pc[t] = "locked"
    /\ l_op[t].fn = "save_result"
    /\ l_storage' = [l_storage EXCEPT ![l_op[t].id] =
                        <<Entry([id |-> l_op[t].id, of |-> t], [of |-> t])>>]
    /\ l_pc' = [l_pc EXCEPT ![t] = "release"]
    /\ UNCHANGED <<l_op, l_lock, l_ret, l_saved>>
    /\ UNCHANGED OutsideL

\* get_entry: return _storage.get(result_id), the value is computed
StoreRead(t) ==
    /\ l_pc[t] = "locked"
    /\ l_op[t].fn = "get_entry"
    /\ l_ret' = [l_ret EXCEPT ![t] = l_storage[l_op[t].id]]
    /\ l_pc' = [l_pc EXCEPT ![t] = "release"]
    /\ UNCHANGED <<l_op, l_lock, l_storage, l_saved>>
    /\ UNCHANGED OutsideL

\* The end of the with block: the lock is released and the call returns.
StoreRelease(t) ==
    /\ l_pc[t] = "release"
    /\ l_lock' = IF l_lock = t THEN 0 ELSE l_lock
    /\ l_saved' = IF l_op[t].fn = "save_result"
                  THEN Append(l_saved, [id |-> l_op[t].id, of |-> t])
                  ELSE l_saved
    /\ l_pc' = [l_pc EXCEPT ![t] = "done"]
    /\ UNCHANGED <<l_op, l_storage, l_ret>>
    /\ UNCHANGED OutsideL

-----------------------------------------------------------------------------
(* Specifications *)

\* No validation call: the rule engine's variables rest.
IdleV ==
    /\ v_engine = "core"
    /\ v_doc = BaseDoc
    /\ v_kwargs = BaseKwargs
    /\ v_spec = DocumentSpec(BaseKwargs)
    /\ v_services = Absent
    /\ v_pc = 0
    /\ v_validations = EmptyMap
    /\ v_out = Raised("idle", 0)

\* No extraction call: the dispatcher's variables rest.
IdleD ==
    /\ d_impl = "base"
    /\ d_file = [kind |-> "junk", pages |-> 0,
                 layout |-> CHOOSE l \in Layouts : l.sized, rendered |-> FALSE]
    /\ d_format = <<>>
    /\ d_pc = "start"
    /\ d_props = <<>>
    /\ d_pdf = <<>>
    /\ d_calls = <<>>
    /\ d_out = DRaise(Failed("idle", "", 0))

\* No conversion of its own: the converter's variables rest.
IdleC ==
    /\ c_mode = "sync"
    /\ c_src = CHOOSE f \in ConvInputs : f.kind = "doc" /\ f.layout.sized
    /\ c_ext = DOC
    /\ c_env = [how |-> "missing", pdf |-> c_src]
    /\ c_clock = 0
    /\ c_w = "done"
    /\ c_proc = "none"
    /\ c_proc_start = 0
    /\ c_tmp = <<>>
    /\ c_res = Failed("idle", "", 0)
    /\ c_out = Failed("idle", "", 0)

\* No order is parsed: the parser's variables rest.
IdleO ==
    /\ o_order = TestOrder
    /\ o_text = OrderText(TestOrder)
    /\ o_pc = "done"
    /\ o_norm = <<>>
    /\ o_services = EmptyMap
    /\ o_m = <<>>
    /\ o_out = Failed("idle", "", 0)

\* No request: the endpoints' variables rest.
IdleE ==
    /\ e_endpoint = "validate"
    /\ e_ext = <<>>
    /\ e_file = CHOOSE f \in ConvInputs : f.kind = "doc" /\ f.layout.sized
    /\ e_too_large = FALSE
    /\ e_store = "found"
    /\ e_order = TestOrder
    /\ e_pc = "done"
    /\ e_kwargs = EmptyMap
    /\ e_services = Absent
    /\ e_resp = Response(0, "idle")

\* No scan of page sizes: its variables rest.
IdleS ==
    /\ s_impl = "pdf"
    /\ s_pages = <<>>
    /\ s_pc = "done"
    /\ s_boxes = <<>>
    /\ s_ref = <<>>
    /\ s_i = 0
    /\ s_inconsistent = <<>>
    /\ s_out = Failed("idle", "", 0)

\* One validate_document call on inputs drawn from the input sets.
\* No second call of process_document.
IdleR ==
    /\ r_run = 1
    /\ r_first = DRaise(Failed("idle", "", 0))
    /\ r_now = 1
    /\ r_lo = [kind |-> "junk", pages |-> 0]

\* No concurrent requests.
IdleT ==
    /\ t_file = [i \in Tasks |-> CHOOSE f \in TaskDocs : f.kind = "pdf"]
    /\ t_ext = [i \in Tasks |-> PDF]
    /\ t_how = [i \in Tasks |-> "ok"]
    /\ t_pc = [i \in Tasks |-> "done"]
    /\ t_props = [i \in Tasks |-> <<>>]
    /\ t_tmp = [i \in Tasks |-> <<>>]
    /\ t_seen = [i \in Tasks |-> <<>>]
    /\ t_res = [i \in Tasks |-> Failed("idle", "", 0)]
    /\ t_out = [i \in Tasks |-> DRaise(Failed("idle", "", 0))]
    /\ t_report = [i \in Tasks |-> Raised("idle", 0)]
    /\ t_fs = [d \in DirNames |-> Absent]

\* No PDF is being scanned.
IdleP ==
    /\ p_pdf = <<>>
    /\ p_outline = 0
    /\ p_pc = "done"
    /\ p_idx = 0
    /\ p_w = 1
    /\ p_pos = "missing"
    /\ p_headings = <<>>
    /\ p_positions = <<>>
    /\ p_toc = <<>>
    /\ p_out = Failed("idle", "", 0)

IdleA ==
    /\ a_impl = "pdf"
    /\ a_units = <<>>
    /\ a_rels = 0
    /\ a_pc = "done"
    /\ a_i = 0
    /\ a_s = 1
    /\ a_page_is_color = FALSE
    /\ a_color_pages = {}
    /\ a_has_color_text = FALSE
    /\ a_colored = 0
    /\ a_image_count = 0
    /\ a_fonts = <<>>
    /\ a_out = Failed("idle", "", 0)

IdleB ==
    /\ b_source = "create"
    /\ b_body = EmptyMap
    /\ b_order = TestOrder
    /\ b_insert_fails = FALSE
    /\ b_pc = "done"
    /\ b_db = {}
    /\ b_spec = Absent
    /\ b_resp = [status |-> 0, detail |-> "idle"]

IdleL ==
    /\ l_op = [t \in {} |-> 0]
    /\ l_pc = [t \in {} |-> "done"]
    /\ l_lock = 0
    /\ l_storage = [id \in {} |-> Absent]
    /\ l_ret = [t \in {} |-> Absent]
    /\ l_saved = <<>>

Init == InitV /\ IdleD /\ IdleC /\ IdleO /\ IdleE /\ IdleS /\ IdleR /\ IdleT /\ IdleP /\ IdleA /\ IdleB /\ IdleL

Next == ValidateEnter \/ ValidateRule \/ ValidateReturn

Spec == Init /\ [][Next]_vars

\* One process_document call on inputs drawn from the input sets.
InitDispatch == InitD /\ IdleV /\ IdleC /\ IdleO /\ IdleE /\ IdleS /\ IdleR /\ IdleT /\ IdleP /\ IdleA /\ IdleB /\ IdleL

NextDispatch ==
    Dispatch \/ CallConverter \/ CallNativeExtractor \/ CallPdfExtractor
    \/ CountPages

SpecDispatch == InitDispatch /\ [][NextDispatch]_vars

\* One conversion, synchronous or asynchronous, against the clock.
InitConvert == InitC /\ IdleV /\ IdleD /\ IdleO /\ IdleE /\ IdleS /\ IdleR /\ IdleT /\ IdleP /\ IdleA /\ IdleB /\ IdleL

NextConvert ==
    ToThread \/ ConvStart \/ ConvSpawn \/ SubprocessExits \/ ConvCollect
    \/ ConvRunTimeout \/ WaitForReturns \/ WaitForTimeout \/ CallerCancelled
    \/ Tick

SpecConvert == InitConvert /\ [][NextConvert]_vars

\* The same with the scheduling the platform gives: time passes, the event
\* loop and the worker thread get to run.  That the soffice process ever ends
\* by itself, or that the caller is ever cancelled, is not assumed.
FairConvert ==
    /\ WF_vars(ToThread) /\ WF_vars(ConvStart) /\ WF_vars(ConvSpawn)
    /\ WF_vars(ConvCollect) /\ WF_vars(ConvRunTimeout) /\ WF_vars(WaitForReturns)
    /\ WF_vars(WaitForTimeout) /\ WF_vars(Tick)

SpecConvertLive == InitConvert /\ [][NextConvert]_vars /\ FairConvert

\* One parse_order call on an order text drawn from the input set.
InitOrder == InitO /\ IdleV /\ IdleD /\ IdleC /\ IdleE /\ IdleS /\ IdleR /\ IdleT /\ IdleP /\ IdleA /\ IdleB /\ IdleL

NextOrder == OrderNormalize \/ OrderServices \/ OrderSearch \/ OrderReturn

SpecOrder == InitOrder /\ [][NextOrder]_vars

\* One request to /validate or /validate-order.
InitEndpoint == InitE /\ IdleV /\ IdleD /\ IdleC /\ IdleO /\ IdleS /\ IdleR /\ IdleT /\ IdleP /\ IdleA /\ IdleB /\ IdleL

NextEndpoint ==
    EpReadChunks \/ EpFindSpec \/ EpCheckExtension \/ EpParseOrder
    \/ EpProcess \/ EpAwait
    \/ Dispatch \/ CallConverter \/ CallNativeExtractor \/ CallPdfExtractor
    \/ CountPages

SpecEndpoint == InitEndpoint /\ [][NextEndpoint]_vars

\* One scan of the page sizes of a PDF or of the section sizes of a DOCX.
InitCopiesOnly == InitCopies /\ IdleD /\ IdleC /\ IdleO /\ IdleE /\ IdleS /\ IdleR /\ IdleT /\ IdleP /\ IdleA /\ IdleB /\ IdleL

NextCopies == ValidateEnter \/ ValidateRule \/ ValidateReturn

\* One call of services.document.validate_document or server.validate_document.
SpecCopies == InitCopiesOnly /\ [][NextCopies]_vars

InitRepeat == InitR /\ IdleV /\ IdleC /\ IdleO /\ IdleE /\ IdleS /\ IdleT /\ IdleP /\ IdleA /\ IdleB /\ IdleL

NextRepeat ==
    \/ Dispatch \/ CallInstalledConverter \/ CallNativeExtractor
    \/ CallPdfExtractor \/ CountPages \/ RunAgain

\* Two calls of process_document, one after the other, on one buffer.
SpecRepeat == InitRepeat /\ [][NextRepeat]_vars

InitConcurrent ==
    InitT /\ IdleV /\ IdleD /\ IdleC /\ IdleO /\ IdleE /\ IdleS /\ IdleR /\ IdleP /\ IdleA /\ IdleB /\ IdleL

NextConcurrent ==
    \E i \in Tasks :
        \/ TaskDispatch(i) \/ TaskMkdtemp(i) \/ TaskWrite(i) \/ TaskSpawn(i)
        \/ TaskChildExit(i) \/ TaskCollect(i) \/ TaskCleanup(i)
        \/ TaskResume(i) \/ TaskValidate(i)

\* Two requests, their steps interleaved in every order.
SpecConcurrent == InitConcurrent /\ [][NextConcurrent]_vars

InitExtractValidate ==
    InitPipeline /\ IdleV /\ IdleC /\ IdleO /\ IdleE /\ IdleS /\ IdleR /\ IdleT /\ IdleP /\ IdleA /\ IdleB /\ IdleL

NextExtractValidate ==
    \/ Dispatch \/ CallConverter \/ CallNativeExtractor \/ CallPdfExtractor
    \/ CountPages \/ ValidateExtracted
    \/ ValidateEnter \/ ValidateRule \/ ValidateReturn

\* One document extracted by base.process_document, then validated by
\* core.validate_document.
SpecExtractValidate == InitExtractValidate /\ [][NextExtractValidate]_vars

InitPdfPages ==
    InitP /\ IdleV /\ IdleD /\ IdleC /\ IdleO /\ IdleE /\ IdleS /\ IdleR /\ IdleT /\ IdleA /\ IdleB /\ IdleL

NextPdfPages ==
    \/ PdfOpen \/ PageText \/ WordStep \/ WordsEnd \/ PageAppend \/ PdfOutline
    \/ PdfReturn

\* One call of extract_pdf_properties, seen from its loop over the pages.
SpecPdfPages == InitPdfPages /\ [][NextPdfPages]_vars

InitAnalysis ==
    InitA /\ IdleV /\ IdleD /\ IdleC /\ IdleO /\ IdleE /\ IdleS /\ IdleR /\ IdleT
          /\ IdleP /\ IdleB /\ IdleL

NextAnalysis ==
    \/ PdfPageImages \/ PdfPagePixels \/ PdfSpan \/ PdfPageEnd
    \/ PdfAnalysisReturn
    \/ DocxParagraph \/ DocxRun \/ DocxParagraphEnd \/ DocxAnalysisReturn

\* One call of a detailed analysis, of a PDF or of a DOCX.
SpecAnalysis == InitAnalysis /\ [][NextAnalysis]_vars

InitSpecs ==
    InitB /\ IdleV /\ IdleD /\ IdleC /\ IdleO /\ IdleE /\ IdleS /\ IdleR /\ IdleT
          /\ IdleP /\ IdleA /\ IdleL

NextSpecs == create_spec \/ FindSpec \/ OrderSpec

\* One specification on its way to the rule engine.
SpecSpecs == InitSpecs /\ [][NextSpecs]_vars

InitStore ==
    InitL /\ IdleV /\ IdleD /\ IdleC /\ IdleO /\ IdleE /\ IdleS /\ IdleR /\ IdleT
          /\ IdleP /\ IdleA /\ IdleB

NextStore ==
    \E t \in Threads :
        StoreAcquire(t) \/ StoreWrite(t) \/ StoreRead(t) \/ StoreRelease(t)

\* Calls of the result store from several threads.
SpecStore == InitStore /\ [][NextStore]_vars

InitScan == InitS /\ IdleV /\ IdleD /\ IdleC /\ IdleO /\ IdleE /\ IdleR /\ IdleT /\ IdleP /\ IdleA /\ IdleB /\ IdleL

NextScan == ScanOpen \/ ScanBox \/ ScanRef \/ ScanCompare \/ ScanReturn

SpecScan == InitScan /\ [][NextScan]_vars

-----------------------------------------------------------------------------
(* Properties of the rule engine *)

Evaluated(name) == name \in DOMAIN v_validations

LayoutService == ServicesGet(ServicesOrEmpty(v_services), "layout_service")

\* The index of a check in the running function's order (0 if it has none).
CheckIndex(name) ==
    LET cs == EngineChecks(v_engine) IN
    IF \E i \in 1..Len(cs) : cs[i] = name
    THEN CHOOSE i \in 1..Len(cs) : cs[i] = name
    ELSE 0

\* The check `name` raised and its exception left the function.
RaisedIn(name) ==
    /\ v_out.kind = "raise"
    /\ v_pc >= 1
    /\ v_pc = CheckIndex(name)

\* C1: with services.layout_service true, every one of the three functions
\* records page_size = true and margins = true once it has evaluated them,
\* neither check raises, and every report returned carries both as true,
\* whatever the document's page size and margins (absent or far off).
C1_LayoutServiceSuppresses ==
    LayoutService =>
        /\ Evaluated("page_size") => v_validations["page_size"]
        /\ Evaluated("margins") => v_validations["margins"]
        /\ ~RaisedIn("page_size") /\ ~RaisedIn("margins")
        /\ v_out.kind = "report" =>
              /\ v_out.validations["page_size"]
              /\ v_out.validations["margins"]

\* C1 witness: a report under layout_service for a document that has no
\* margins key and whose page size is far from the spec's.
C1_Witness ==
    /\ LayoutService
    /\ v_out.kind = "report"
    /\ ~Has(v_doc.margins)
    /\ Has(v_doc.page_size)
    /\ Abs(Val(v_doc.page_size).width_cm - v_spec.page_width_cm) > 300
    /\ v_out.validations["page_size"]
    /\ v_out.validations["margins"]

ExpectedPositionsOk(doc) ==
    /\ Has(doc.page_num_positions)
    /\ Val(doc.page_num_positions) # <<>>
    /\ \A p \in Range(Val(doc.page_num_positions)) : p \in {"left", "center", "right"}

\* C2: page_numbers_position is false for a document whose page_num_positions
\* is empty or absent, and true exactly when the sequence is non-empty and
\* every entry is left, center or right (rules.py and the document.py block).
C2_PageNumbersFailClosed ==
    /\ Evaluated("page_numbers_position") =>
          v_validations["page_numbers_position"] = ExpectedPositionsOk(v_doc)
    /\ v_out.kind = "report" /\ "page_numbers_position" \in DOMAIN v_out.validations =>
          v_out.validations["page_numbers_position"] = ExpectedPositionsOk(v_doc)
    /\ DocumentCheck("page_numbers_position", v_doc, v_spec,
                     ServicesOrEmpty(v_services)) = Ok(ExpectedPositionsOk(v_doc))

\* C2 witness: a report for a document without page_num_positions, the rule
\* recorded false.
C2_Witness ==
    /\ v_out.kind = "report"
    /\ ~Has(v_doc.page_num_positions)
    /\ ~v_out.validations["page_numbers_position"]

\* The spec was built with min_page_count = 0 or without any min_page_count.
NoMinimumGiven ==
    \/ "min_page_count" \notin DOMAIN v_kwargs
    \/ v_kwargs["min_page_count"] = 0

\* C3 (as claimed): with min_page_count = 0, or none given, the min_page_count
\* rule is true for every document, whatever its page_count.
C3_MinPageCountZeroPasses ==
    NoMinimumGiven =>
        /\ Evaluated("min_page_count") => v_validations["min_page_count"]
        /\ ~RaisedIn("min_page_count")

\* C4 (as claimed): without layout_service the page_size rule is true exactly
\* when both the width and the height are less than 0.6 cm off the spec, in
\* every validate_document.
C4_PageSizeTolerance ==
    (~LayoutService /\ Evaluated("page_size")) =>
        v_validations["page_size"] =
            (/\ Abs(Val(v_doc.page_size).width_cm - v_spec.page_width_cm) < 60
             /\ Abs(Val(v_doc.page_size).height_cm - v_spec.page_height_cm) < 60)

\* C5: in every report returned, is_valid is true exactly when every entry of
\* validations is true, and validations has an entry for each check of the
\* function that returned it.
C5_IsValidIsConjunction ==
    v_out.kind = "report" =>
        /\ DOMAIN v_out.validations = Range(EngineChecks(v_engine))
        /\ v_out.is_valid = (\A k \in Range(EngineChecks(v_engine)) :
                                v_out.validations[k])
        /\ (\E k \in DOMAIN v_out.validations : ~v_out.validations[k])
              => ~v_out.is_valid

\* C5 witness: a report in which exactly one rule is false.
C5_Witness ==
    /\ v_out.kind = "report"
    /\ Cardinality({k \in DOMAIN v_out.validations : ~v_out.validations[k]}) = 1
    /\ ~v_out.is_valid

\* C6 (as claimed): an exception raised inside a rule never aborts the
\* evaluation: no validate_document ends by raising a rule's exception.
C6_RuleExceptionContained ==
    ~(v_out.kind = "raise" /\ v_pc >= 1)

\* The document matches the spec's page size and margins and numbers its
\* pages in allowed positions; the spec asks for nothing optional.
Conforming ==
    /\ Has(v_doc.page_size)
    /\ Val(v_doc.page_size).width_cm = v_spec.page_width_cm
    /\ Val(v_doc.page_size).height_cm = v_spec.page_height_cm
    /\ Has(v_doc.margins)
    /\ \A side \in MarginSides : Val(v_doc.margins)[side] = SpecMargin(v_spec, side)
    /\ ExpectedPositionsOk(v_doc)
    /\ ~(Has(v_doc.has_size_inconsistencies) /\ Val(v_doc.has_size_inconsistencies))
    /\ \A f \in FlagFields : ~v_spec[f]
    /\ "min_page_count" \notin DOMAIN v_kwargs
    /\ ServicesOrEmpty(v_services) = EmptyMap

\* C7 (as claimed): for a conforming document and a spec with no optional
\* requirement, services.document.validate_document does not raise and its
\* report has is_valid = true with every rule true.
C7_ConformingDocumentValid ==
    (v_engine = "document" /\ Conforming) =>
        /\ v_out.kind # "raise"
        /\ v_out.kind = "report" =>
              (v_out.is_valid /\ \A k \in DOMAIN v_out.validations :
                                     v_out.validations[k])

\* The document reports pages (sections) of different sizes.
SizeInconsistencies ==
    Has(v_doc.has_size_inconsistencies) /\ Val(v_doc.has_size_inconsistencies)

\* C16: for a document with has_size_inconsistencies true, format_consistency
\* is recorded false, never true, and every report returned has
\* format_consistency false and is_valid false, with any services map,
\* services.layout_service true included; the rule itself gives false whatever
\* the services are.
C16_FormatConsistencyNeverSuppressed ==
    SizeInconsistencies =>
        /\ Evaluated("format_consistency") => ~v_validations["format_consistency"]
        /\ ~RaisedIn("format_consistency")
        /\ v_out.kind = "report" =>
              /\ ~v_out.validations["format_consistency"]
              /\ ~v_out.is_valid
        /\ \A sv \in ServicesInputs :
              format_consistency(v_doc, v_spec, ServicesOrEmpty(sv)) = Ok(FALSE)

\* C16 witness: a report under layout_service for a document with size
\* inconsistencies: page_size is suppressed to true, format_consistency is
\* false, the document is not valid.
C16_Witness ==
    /\ SizeInconsistencies
    /\ LayoutService
    /\ v_out.kind = "report"
    /\ v_out.validations["page_size"]
    /\ ~v_out.validations["format_consistency"]
    /\ ~v_out.is_valid

\* The call of one copy is over, with a report or an exception.
CopyDone == v_engine \in Copies /\ v_out.kind # "running"

SameOutcome(a, b) ==
    \/ a.kind = "raise" /\ b.kind = "raise"
    \/ /\ a.kind = "report" /\ b.kind = "report"
       /\ DOMAIN a.validations = DOMAIN b.validations
       /\ \A k \in DOMAIN a.validations : a.validations[k] = b.validations[k]
       /\ a.is_valid = b.is_valid

-----------------------------------------------------------------------------
(* Properties of the dispatcher *)

LowerToUpper ==
    [c \in {"d", "o", "c", "x", "t", "p", "f"} |->
        CASE c = "d" -> "D" [] c = "o" -> "O" [] c = "c" -> "C" [] c = "x" -> "X"
          [] c = "t" -> "T" [] c = "p" -> "P" [] c = "f" -> "F"]

\* str is the extension ext written in any mix of upper and lower case.
SameIgnoringCase(str, ext) ==
    /\ Len(str) = Len(ext)
    /\ \A i \in 1..Len(ext) : str[i] \in {ext[i], LowerToUpper[ext[i]]}

SupportedFormat == \E ext \in {DOC, DOCX, ODT, PDF} : SameIgnoringCase(d_format, ext)

UnsupportedError(out) ==
    /\ out.kind = "raise"
    /\ out.exc = "HTTPException"
    /\ out.status = 400
    /\ out.detail = "Unsupported file format"

\* C8: for a declared extension that is not doc, docx, odt or pdf in any
\* letter case, process_document calls neither an extractor nor the converter
\* and ends only with the unsupported-format error; for the four supported
\* extensions it never ends with that error.
C8_UnsupportedFormat ==
    /\ ~SupportedFormat =>
          /\ d_calls = <<>>
          /\ d_pc = "start"
          /\ d_out.kind # "running" => UnsupportedError(d_out)
    /\ SupportedFormat => ~UnsupportedError(d_out)

\* C8 witness: an unsupported extension has been refused.
C8_Witness ==
    /\ d_format = <<"d", "o", "c", "m">>
    /\ UnsupportedError(d_out)
    /\ d_calls = <<>>

\* C9: for extension doc the first call is the converter on the uploaded
\* bytes; the PDF extractor runs only after a successful conversion, as the
\* second call, on the bytes the converter returned, which are not the
\* uploaded ones; when the conversion fails no further call is made and the
\* caller gets the conversion's exception.
C9_DocConvertsThenExtracts ==
    SameIgnoringCase(d_format, DOC) =>
        /\ \A i \in 1..Len(d_calls) : d_calls[i].fn \in {"convert", "extract_pdf"}
        /\ Len(d_calls) >= 1 =>
              /\ d_calls[1].fn = "convert"
              /\ d_calls[1].arg = d_file
        /\ \A i \in 1..Len(d_calls) :
              d_calls[i].fn = "extract_pdf" =>
                  /\ i = 2
                  /\ d_calls[1].exc = "none"
                  /\ d_calls[2].arg = Val(d_calls[1].ret)
                  /\ d_calls[2].arg # d_file
        /\ (Len(d_calls) >= 1 /\ d_calls[1].exc # "none") =>
              /\ Len(d_calls) = 1
              /\ d_out.kind = "raise"
              /\ d_out.exc = d_calls[1].exc
        /\ d_out.kind = "return" => Len(d_calls) = 2

\* C9 witness: a doc upload converted, then extracted from the converter's PDF.
C9_Witness ==
    /\ SameIgnoringCase(d_format, DOC)
    /\ d_out.kind = "return"
    /\ Len(d_calls) = 2
    /\ d_calls[2].fn = "extract_pdf"
    /\ d_calls[2].arg.rendered

DocKeys ==
    {"page_size", "margins", "has_toc", "has_size_inconsistencies",
     "detailed_analysis", "headers", "footnotes", "page_count",
     "page_num_positions"}

\* C10: for extensions docx and odt the properties returned are the native
\* extractor's, with page_count set to the page count of the PDF the converter
\* returned and every other key as the native extractor gave it; when the
\* native extractor, the converter or the page count fails, the call raises
\* that failure and returns no properties.
C10_NativePropsPlusPageCount ==
    (SameIgnoringCase(d_format, DOCX) \/ SameIgnoringCase(d_format, ODT)) =>
        /\ d_out.kind = "return" =>
              /\ Len(d_calls) = 3
              /\ d_calls[1].fn = (IF SameIgnoringCase(d_format, DOCX)
                                  THEN "extract_docx" ELSE "extract_odt")
              /\ d_calls[1].arg = d_file
              /\ d_calls[2].fn = "convert"
              /\ d_calls[2].arg = d_file
              /\ LET native == Val(d_calls[1].ret)
                     pdf == Val(d_calls[2].ret)
                     got == Val(d_out.props)
                 IN  /\ got.page_count = <<pdf.pages>>
                     /\ \A k \in DocKeys \ {"page_count"} : got[k] = native[k]
        /\ \A i \in 1..Len(d_calls) :
              d_calls[i].exc # "none" =>
                  /\ i = Len(d_calls)
                  /\ d_out.kind = "raise"
                  /\ d_out.exc = d_calls[i].exc
                  /\ d_out.props = <<>>

\* C10 witness: a docx upload returned with the converter's page count, which
\* differs from the page count the upload itself describes.
C10_Witness ==
    /\ SameIgnoringCase(d_format, DOCX)
    /\ d_out.kind = "return"
    /\ Val(d_out.props).page_count = <<2>>
    /\ d_file.pages = 0
    /\ Val(d_out.props).page_num_positions = Absent

\* Both calls on the buffer are over and both returned a record.
BothReturned ==
    r_run = 2 /\ r_first.kind = "return" /\ d_out.kind = "return"

\* C17: process_document run twice on the same byte buffer with the same
\* extension returns two identical records (page size, margins, flags,
\* sequences, page_count and detailed analysis alike).
C17_ExtractionDeterministic ==
    BothReturned => Val(d_out.props) = Val(r_first.props)

-----------------------------------------------------------------------------
(* Properties of the converter *)

\* Why a run of soffice makes the conversion fail.
CauseOfRun(how) ==
    CASE how = "missing"              -> "unavailable"
      [] how = "timeout"              -> "timeout"
      [] how \in {"nonzero", "no_pdf"} -> "failed"
      [] OTHER                        -> "none"

\* r is a failure of the conversion itself (not the caller's own cancellation).
ConversionFailure(r) ==
    r.exc \notin {"none", "pending", "idle", "CancelledError"}

\* Why the conversion that ended with r failed, read from what happened.
ObservedCause(r) ==
    IF r.exc = "TimeoutError" \/ c_proc = "killed" THEN "timeout"
    ELSE CauseOfRun(c_env.how)

\* C11 (as claimed): the type of a conversion failure tells its cause: no run
\* of the converter that fails for another of the three causes (executable
\* missing, timeout, converter error) raises the same type.
C11_FailureTypeTellsCause ==
    \A r \in {c_res, c_out} :
        ConversionFailure(r) =>
            \A run \in SubprocessRuns(c_src) :
                (/\ CauseOfRun(run.how) # "none"
                 /\ CauseOfRun(run.how) # ObservedCause(r))
                => convert_to_pdf_via_lo(c_src, c_ext, run).exc # r.exc

CallerDone == c_out # Pending

\* C12: every conversion completes for its caller, with the PDF bytes or with
\* a failure: a soffice process is never left running more than the timeout
\* of subprocess.run, an asynchronous caller never waits more than the timeout
\* of wait_for, a process that never exits or exits non-zero gives the caller
\* a failure, and the caller's result eventually arrives.
C12_ConversionCompletes ==
    /\ [](c_proc = "running" =>
              c_clock - c_proc_start < _SUBPROCESS_TIMEOUT + ClockStep)
    /\ []((c_mode = "async" /\ c_w # "idle" /\ ~CallerDone) =>
              c_clock < _DEFAULT_TO_THREAD_TIMEOUT + ClockStep)
    /\ [](CallerDone =>
              \/ c_out.exc = "none" /\ Has(c_out.ret)
              \/ c_out.exc # "none" /\ ~Has(c_out.ret))
    /\ []((CallerDone /\ c_env.how \in {"timeout", "nonzero"}) =>
              c_out.exc # "none")
    /\ <>CallerDone

\* C12 witness: a soffice process that never exits was killed at the timeout
\* and the synchronous caller got the failure.
C12_Witness ==
    /\ c_mode = "sync"
    /\ c_env.how = "timeout"
    /\ c_proc = "killed"
    /\ c_out.exc = "RuntimeError"
    /\ c_clock - c_proc_start >= _SUBPROCESS_TIMEOUT

CallerGaveUp == c_out.exc \in {"TimeoutError", "CancelledError"}

\* C13 (as claimed): once the asynchronous caller has observed the timeout or
\* the cancellation, no soffice process of that call is running and none is
\* started any more.
C13_NoSubprocessAfterGivingUp ==
    CallerGaveUp => (c_proc # "running" /\ c_w # "spawn")

-----------------------------------------------------------------------------
(* Properties of the order parser *)

\* The order holds a format: the label, then a width, an admitted separator
\* and a height.
HoldsFormat(o) == o.label.ok /\ o.sep.ok

HoldsKeyword(o) == o.prefix.keyword \/ o.suffix.keyword

\* C18: for an order text that holds a format, parse_order returns the width
\* and the height as numbers and a services map whose only key,
\* layout_service, is true exactly when the text holds the word impaginazione
\* in any letter case; for a text without a format it raises ValueError and
\* returns nothing.
C18_ParseOrder ==
    /\ o_out.exc = "none" =>
          /\ HoldsFormat(o_order)
          /\ Val(o_out.ret).final_format_cm = <<o_order.w.value, o_order.h.value>>
          /\ DOMAIN Val(o_out.ret).services = {"layout_service"}
          /\ Val(o_out.ret).services["layout_service"] = HoldsKeyword(o_order)
    /\ o_out.exc = "ValueError" => (~HoldsFormat(o_order) /\ o_out.ret = <<>>)
    /\ o_pc = "done" =>
          /\ o_out.exc \in {"none", "ValueError", "idle"}
          /\ HoldsFormat(o_order) <=> o_out.exc \in {"none", "idle"}
    /\ o_pc \in {"search", "return"} =>
          (DOMAIN o_services = {"layout_service"}
           /\ o_services["layout_service"] = HoldsKeyword(o_order))

\* C18 witness: the order of the repository's test has been parsed to
\* (17.0, 24.0) with layout_service true.
C18_Witness ==
    /\ o_order = TestOrder
    /\ o_pc = "done"
    /\ o_out.exc = "none"
    /\ Val(o_out.ret).final_format_cm = <<1700, 2400>>
    /\ Val(o_out.ret).services["layout_service"]

-----------------------------------------------------------------------------
(* Properties of the endpoints *)

\* The uploaded file's extension is none of doc, docx, odt, pdf in any case.
UnsupportedUpload ==
    ~\E ext \in {DOC, DOCX, ODT, PDF} : SameIgnoringCase(e_ext, ext)

\* The request got as far as the file's format: the upload is within the size
\* limit, the specification is found, the order text parses.
ReachesFormat ==
    /\ ~e_too_large
    /\ e_store = "found"
    /\ e_endpoint = "validate_order" => HoldsFormat(e_order)

Responded == e_pc = "done" /\ e_resp.status # 0

\* C14 (as claimed): an upload with an unsupported extension is answered with
\* a 4xx status by /validate and by /validate-order, never with a 5xx.
C14_UnsupportedUploadIsClientError ==
    (UnsupportedUpload /\ ReachesFormat /\ Responded) =>
        (e_resp.status >= 400 /\ e_resp.status < 500)

-----------------------------------------------------------------------------
(* Properties of /validate-order *)

\* C28: /validate-order validates against a DocumentSpec that carries the
\* minimum of 40 pages, and answers with the validation result (HTTP 200)
\* whenever the order text holds a format and the document is processed,
\* whatever the number of its pages.
C28_OrderMinimumPages ==
    (/\ e_endpoint = "validate_order"
     /\ e_pc = "done"
     /\ HoldsFormat(e_order)
     /\ d_out.kind = "return") =>
        /\ e_resp.status = 200
        /\ HasAttr(DocumentSpec(e_kwargs), "min_page_count")

-----------------------------------------------------------------------------
(* Properties of the scan of the page sizes *)

\* Page i of the document is more than 0.1 cm off the first page in width or
\* in height.
OffFirst(pages, i) ==
    \/ pages[i].width_cm - pages[1].width_cm > 10
    \/ pages[1].width_cm - pages[i].width_cm > 10
    \/ pages[i].height_cm - pages[1].height_cm > 10
    \/ pages[1].height_cm - pages[i].height_cm > 10

ScanReturned == s_pc = "done" /\ s_out.exc = "none"

\* C15: for PDF pages and DOCX sections alike, has_size_inconsistencies is
\* true exactly when some page after the first is more than 0.1 cm off the
\* first in width or in height, and the inconsistent list names exactly those
\* pages, by their 1-based number, in document order, never the first.
C15_SizeInconsistencies ==
    ScanReturned =>
        LET got == Val(s_out.ret)
            idx == [k \in 1..Len(got.inconsistent) |-> got.inconsistent[k].index]
        IN  /\ got.has_size_inconsistencies
                  = (\E i \in 2..Len(s_pages) : OffFirst(s_pages, i))
            /\ Range(idx) = {i \in 2..Len(s_pages) : OffFirst(s_pages, i)}
            /\ \A k \in 1..(Len(idx) - 1) : idx[k] < idx[k + 1]
            /\ 1 \notin Range(idx)

\* C15 witness: pages 1 and 2 of 21 x 29.7 cm and page 3 of 21 x 14.8 cm give
\* exactly page 3.
C15_Witness ==
    /\ ScanReturned
    /\ s_impl = "pdf"
    /\ s_pages = <<[width_cm |-> 2100, height_cm |-> 2970],
                   [width_cm |-> 2100, height_cm |-> 2970],
                   [width_cm |-> 2100, height_cm |-> 1480]>>
    /\ Val(s_out.ret).has_size_inconsistencies
    /\ Len(Val(s_out.ret).inconsistent) = 1
    /\ Val(s_out.ret).inconsistent[1].index = 3

-----------------------------------------------------------------------------
(* Properties of an extraction followed by a validation *)

\* The validation of the extracted record has produced its report.
Reported == d_out.kind = "return" /\ v_out.kind = "report"

\* C21: a document processed with extension docx or odt has no
\* page_num_positions, so its report has page_numbers_position false and
\* is_valid false, whatever the spec and the services; only a pdf or a doc
\* extension can lead to a report with is_valid true.
C21_NativeFormatsNeverValid ==
    /\ (d_out.kind = "return" /\ Lower(d_format) \in {DOCX, ODT}) =>
            ~Has(Val(d_out.props).page_num_positions)
    /\ (Reported /\ Lower(d_format) \in {DOCX, ODT}) =>
            /\ v_out.validations["page_numbers_position"] = FALSE
            /\ v_out.is_valid = FALSE
    /\ (Reported /\ v_out.is_valid) => Lower(d_format) \in {PDF, DOC}

\* A docx with the page size and margins of the spec, layout service bought,
\* has been reported.
C21_Witness ==
    /\ Reported
    /\ Lower(d_format) = DOCX
    /\ v_out.validations["page_size"]
    /\ v_out.validations["margins"]
    /\ ~v_out.validations["page_numbers_position"]

-----------------------------------------------------------------------------
(* Properties of the scan of a PDF's pages *)

PdfReturned == p_pc = "done" /\ p_out.exc = "none"

\* The inner loop over one page's words from the k-th on, as a whole.
RECURSIVE ScanWords(_, _, _)
ScanWords(words, k, idx) ==
    IF k > Len(words) THEN "missing"
    ELSE IF IsPageNumber(words[k], idx) /\ ~AboveFooter(words[k], PageHeightPt)
    THEN Zone(words[k].cx, PageWidthPt, "missing")
    ELSE ScanWords(words, k + 1, idx)

\* The loop over the pages has ended: page_num_positions is complete.
PagesScanned == p_pc \in {"analysis", "return"}

\* C22: page_num_positions of a PDF has one entry per page, in page order: as
\* many entries as page_count, entry i being what the scan of page i's words
\* gave, one of left, center, right and missing.
C22_OnePositionPerPage ==
    /\ p_pc \in {"page", "words", "append"} => Len(p_positions) = p_idx
    /\ PagesScanned =>
        /\ Len(p_positions) = Len(p_pdf)
        /\ \A i \in 1..Len(p_pdf) :
              /\ p_positions[i] = ScanWords(p_pdf[i].words, 1, i - 1)
              /\ p_positions[i] \in Positions
    /\ PdfReturned =>
        LET r == Val(p_out.ret) IN
        /\ r.page_count = Len(p_pdf)
        /\ Len(r.page_num_positions) = r.page_count
        /\ \A i \in 1..Len(p_pdf) :
              /\ r.page_num_positions[i] = ScanWords(p_pdf[i].words, 1, i - 1)
              /\ r.page_num_positions[i] \in Positions

\* A PDF of two pages, the first without a number, the second numbered.
C22_Witness ==
    /\ PagesScanned
    /\ Len(p_pdf) = 2
    /\ p_positions[1] = "missing"
    /\ p_positions[2] \in GoodPositions

\* A word that spells the page's number in the bottom band, its centre in
\* one of the three zones.
Qualifies(word, idx) ==
    /\ IsPageNumber(word, idx)
    /\ ~AboveFooter(word, PageHeightPt)
    /\ Zone(word.cx, PageWidthPt, "missing") # "missing"

\* The zone of the first word of the page that qualifies, missing without one.
FirstQualifying(words, idx) ==
    IF \E k \in 1..Len(words) : Qualifies(words[k], idx)
    THEN LET k == CHOOSE k \in 1..Len(words) :
                    /\ Qualifies(words[k], idx)
                    /\ \A j \in 1..(k - 1) : ~Qualifies(words[j], idx)
         IN  Zone(words[k].cx, PageWidthPt, "missing")
    ELSE "missing"

\* C23: a candidate page number whose centre is in none of the zones does not
\* end the scan of the page: the entry of every page is the zone of its first
\* qualifying word, and missing only when no word of the page qualifies.
C23_ScanContinuesPastUnzoned ==
    PagesScanned =>
        \A i \in 1..Len(p_pdf) :
            p_positions[i] = FirstQualifying(p_pdf[i].words, i - 1)

\* C24: has_toc of a PDF is true exactly when a page's text holds a TOC
\* keyword or the PDF's outline has at least one entry.
C24_TocFromKeywordOrOutline ==
    PdfReturned =>
        (Val(p_out.ret).has_toc
            <=> \/ \E i \in 1..Len(p_pdf) : p_pdf[i].toc_keyword
                \/ p_outline > 0)

-----------------------------------------------------------------------------
(* Properties of the detailed analysis *)

AnalysisReturned == a_pc = "done" /\ a_out.exc = "none"

\* The pages of a PDF on which the analysis finds colour: an image that
\* extract_image gives, a pixel whose channels differ, a span that is not
\* black.
IsColorPage(page) ==
    \/ \E k \in 1..Len(page.images) : page.images[k]
    \/ page.pixels
    \/ \E k \in 1..Len(page.spans) : page.spans[k].color # 0

ColoredPages(pages) == {i \in 1..Len(pages) : IsColorPage(pages[i])}

\* C25: for a PDF, colored_elements_count is the number of distinct pages
\* found coloured, between 0 and the number of pages; has_color_pages is
\* true exactly when it is positive; has_color_text implies has_color_pages.
\* While the pages are scanned, color_pages holds pages already visited and
\* coloured text has marked its page.
C25_ColoredPagesCounted ==
    /\ a_impl = "pdf" /\ a_pc # "done" =>
        /\ a_color_pages \subseteq {i - 1 : i \in ColoredPages(a_units)}
        /\ \A n \in a_color_pages : n < a_i
        /\ a_has_color_text => (a_color_pages # {} \/ a_page_is_color)
    /\ a_impl = "pdf" /\ AnalysisReturned =>
        LET r == Val(a_out.ret) IN
        /\ r.colored_elements_count = Cardinality(ColoredPages(a_units))
        /\ r.colored_elements_count >= 0
        /\ r.colored_elements_count <= Len(a_units)
        /\ r.has_color_pages <=> r.colored_elements_count > 0
        /\ r.has_color_text => r.has_color_pages

\* A PDF of two pages: two images on one, no colour on the other; the count
\* is of pages, not of images.
C25_Witness ==
    /\ a_impl = "pdf"
    /\ AnalysisReturned
    /\ Len(a_units) = 2
    /\ Val(a_out.ret).image_count = 2
    /\ Val(a_out.ret).colored_elements_count = 1
    /\ Val(a_out.ret).has_color_pages

\* The sum of the values of a size_counts dict.
RECURSIVE SumCounts(_)
SumCounts(size_counts) ==
    IF DOMAIN size_counts = {} THEN 0
    ELSE LET k == CHOOSE k \in DOMAIN size_counts : TRUE IN
         size_counts[k]
            + SumCounts([j \in DOMAIN size_counts \ {k} |-> size_counts[j]])

\* The spans or runs of a document whose font is name.
SpansOf(units, name) ==
    {<<i, k>> \in (1..Len(units)) \X (1..MaxSpans) :
        k <= Len(units[i].spans) /\ units[i].spans[k].font = name}

\* C26: the font histogram of a PDF or a DOCX: the analysis returns, and for
\* every font of the document count is the number of its spans or runs and
\* the sum of its size_counts, and sizes are the keys of size_counts.
C26_FontHistogram ==
    a_pc = "done" =>
        /\ a_out.exc = "none"
        /\ LET fonts == Val(a_out.ret).fonts IN
           /\ DOMAIN fonts = {name \in {s.font : s \in Spans} :
                                  SpansOf(a_units, name) # {}}
           /\ \A name \in DOMAIN fonts :
                /\ HasAttr(fonts[name], "size_counts")
                /\ fonts[name].count = Cardinality(SpansOf(a_units, name))
                /\ fonts[name].count = SumCounts(fonts[name].size_counts)
                /\ {fonts[name].sizes[k] : k \in 1..Len(fonts[name].sizes)}
                      = DOMAIN fonts[name].size_counts

-----------------------------------------------------------------------------
(* Properties of the specifications *)

NonNegative(spec) == \A f \in LengthFields : spec[f] >= 0

\* C27: every DocumentSpec that is stored by POST /specs or handed to the
\* rule engine, read back from the store or derived from an order text, has
\* a width, a height and four margins that are not negative.
C27_SpecLengthsNonNegative ==
    /\ \A spec \in b_db : NonNegative(spec)
    /\ Has(b_spec) => NonNegative(Val(b_spec))

-----------------------------------------------------------------------------
(* Properties of the result store *)

\* The entry of the most recent completed save_result under id: <<>> when
\* none has completed.
LastSaved(saved, id) ==
    LET ks == {k \in 1..Len(saved) : saved[k].id = id} IN
    IF ks = {} THEN Absent
    ELSE LET k == CHOOSE k \in ks : \A j \in ks : j <= k IN
         <<Entry([id |-> id, of |-> saved[k].of], [of |-> saved[k].of])>>

\* C29: get_entry(id) returns None before any save under id has completed,
\* and otherwise the result and the spec of the most recent completed save
\* under id; the result and the spec of an entry come from the same save; a
\* save under one id leaves the entries of the other ids as they were.
C29_StoreThreadSafe ==
    /\ \A t \in DOMAIN l_pc :
          (l_op[t].fn = "get_entry" /\ l_pc[t] = "release") =>
              l_ret[t] = LastSaved(l_saved, l_op[t].id)
    /\ \A id \in DOMAIN l_storage :
          /\ Has(l_storage[id]) =>
                /\ Val(l_storage[id]).result.id = id
                /\ Val(l_storage[id]).result.of = Val(l_storage[id]).spec.of
          /\ (\A t \in DOMAIN l_pc :
                ~(l_op[t].fn = "save_result" /\ l_op[t].id = id
                    /\ l_pc[t] = "release")) =>
                l_storage[id] = LastSaved(l_saved, id)

\* Two saves under the same id have completed, and a get_entry returns the
\* entry of the second.
C29_Witness ==
    \E t \in DOMAIN l_pc :
        /\ l_op[t].fn = "get_entry"
        /\ l_pc[t] = "release"
        /\ Len(l_saved) = 2
        /\ l_saved[1].id = l_op[t].id
        /\ l_saved[2].id = l_op[t].id
        /\ Has(l_ret[t])
        /\ Val(l_ret[t]).result.of = l_saved[2].of

-----------------------------------------------------------------------------
(* Properties of the asynchronous dispatcher *)

\* extract/base.py: process_document as a whole, for the run of soffice that
\* its conversion meets.
process_document(file_content, file_format, run) ==
    LET b == Branch(Lower(file_format)) IN
    CASE b = "doc_convert" ->
            AfterConversion(file_format, <<>>,
                convert_to_pdf_via_lo(file_content, DOC, run))
      [] b \in {"docx_extract", "odt_extract"} ->
            LET r == IF b = "docx_extract"
                     THEN extract_docx_properties(file_content)
                     ELSE extract_odt_properties(file_content)
            IN  IF r.exc # "none" THEN DRaise(r)
                ELSE AfterConversion(file_format, r.ret,
                        convert_to_pdf_via_lo(file_content, Lower(file_format), run))
      [] b = "pdf_extract" ->
            LET r == extract_pdf_properties(file_content) IN
            IF r.exc = "none" THEN DReturn(Val(r.ret)) ELSE DRaise(r)
      [] OTHER -> DRaise(Failed("HTTPException", "Unsupported file format", 400))

\* C30: whatever process_document_async produces for a buffer and an
\* extension, the props it returns or the exception it raises, is what
\* process_document produces for them under some outcome of the converter.
C30_AsyncAsSync ==
    (d_impl = "async_base" /\ d_out.kind # "running") =>
        \E run \in SubprocessRuns(d_file) :
            d_out = process_document(d_file, d_format, run)

-----------------------------------------------------------------------------
(* Properties of two concurrent requests *)

\* What convert_to_pdf_via_lo gives a request whose soffice child does
\* t_how[i], when nothing else runs.
ConversionAlone(i) ==
    convert_to_pdf_via_lo(t_file[i], t_ext[i],
        [how |-> t_how[i],
         pdf |-> IF t_how[i] = "ok" THEN RenderOf(t_file[i]) ELSE t_file[i]])

\* What process_document_async produces for the request when nothing else runs.
ProcessAlone(i) ==
    LET b == Branch(Lower(t_ext[i])) IN
    CASE b = "doc_convert" -> AfterConversion(t_ext[i], <<>>, ConversionAlone(i))
      [] b \in {"docx_extract", "odt_extract"} ->
            LET r == IF b = "docx_extract" THEN extract_docx_properties(t_file[i])
                     ELSE extract_odt_properties(t_file[i])
            IN  IF r.exc # "none" THEN DRaise(r)
                ELSE AfterConversion(t_ext[i], r.ret, ConversionAlone(i))
      [] b = "pdf_extract" ->
            LET r == extract_pdf_properties(t_file[i]) IN
            IF r.exc = "none" THEN DReturn(Val(r.ret)) ELSE DRaise(r)
      [] OTHER -> DRaise(Failed("HTTPException", "Unsupported file format", 400))

\* What validate_document produces for the request when nothing else runs
\* (it is not called when the extraction raised).
ReportAlone(i) ==
    IF ProcessAlone(i).kind # "return" THEN Running
    ELSE validate_document("core", Val(ProcessAlone(i).props),
                           DocumentSpec(BaseKwargs), Absent)

\* The request holds a temporary directory: between mkdtemp and the cleanup.
InDirectory(i) == t_pc[i] \in {"write", "spawn", "child", "collect", "cleanup"}

\* C20: under every interleaving of two concurrent requests, each request
\* works in a directory of its own, reads back the PDF made from its own
\* input, and ends with exactly the extraction result and the validation
\* report it has when it runs alone.
C20_RequestsDoNotInterfere ==
    \A i \in Tasks :
        /\ \A j \in Tasks \ {i} :
              InDirectory(i) /\ InDirectory(j) => t_tmp[i] # t_tmp[j]
        /\ t_res[i].exc = "none" => Val(t_res[i].ret) = RenderOf(t_file[i])
        /\ t_res[i] # TaskPending => t_res[i] = ConversionAlone(i)
        /\ t_pc[i] = "done" =>
              /\ t_out[i] = ProcessAlone(i)
              /\ t_report[i] = ReportAlone(i)

\* Both conversions have read back a PDF while both temporary directories
\* exist, for two different documents with the same file name.
C20_Witness ==
    /\ t_pc[1] = "cleanup" /\ t_pc[2] = "cleanup"
    /\ t_res[1].exc = "none" /\ t_res[2].exc = "none"
    /\ t_ext[1] = t_ext[2]
    /\ t_file[1] # t_file[2]
    /\ Val(t_res[1].ret) # Val(t_res[2].ret)

=============================================================================
